---- MODULE Spec2Model ----
(***************************************************************************)
(* Model of packages/wp-checkout/src/lib/format-monetary-amount-for-locale *)
(* (formatMonetaryAmountForLocale and its private helpers).                *)
(*                                                                         *)
(* A JavaScript string is a sequence of one-character strings, so that     *)
(* concat, join, padStart, toUpperCase and toLowerCase are computed and    *)
(* the characters of a result can be inspected.  The text of a thrown      *)
(* message literal is kept as one element; a code appended to it with      *)
(* concat follows character by character.                                  *)
(*                                                                         *)
(* Every function returns an outcome record                                *)
(*     [ok |-> BOOLEAN, val |-> value or thrown value, trace |-> calls]    *)
(* where trace lists, in order, the helper calls made while computing it.  *)
(***************************************************************************)
EXTENDS Integers, Sequences, FiniteSets, TLC

\* ------------------------------------------------------------------ bounds

\* Amounts -MaxDense .. MaxDense are all enumerated.
MaxDense == 205

\* Arguments 0 .. MaxGroupArg of the direct groupDigits calls are all enumerated.
MaxGroupArg == 1100

\* minorUnitsAsDecimalForCurrency is applied to every integer from
\* -MaxMinorArg to MaxMinorArg.
MaxMinorArg == 120

\* ------------------------------------------------------- JavaScript strings

LowerLetters ==
    << "a", "b", "c", "d", "e", "f", "g", "h", "i", "j", "k", "l", "m",
       "n", "o", "p", "q", "r", "s", "t", "u", "v", "w", "x", "y", "z" >>

UpperLetters ==
    << "A", "B", "C", "D", "E", "F", "G", "H", "I", "J", "K", "L", "M",
       "N", "O", "P", "Q", "R", "S", "T", "U", "V", "W", "X", "Y", "Z" >>

DigitChars == << "0", "1", "2", "3", "4", "5", "6", "7", "8", "9" >>

\* Position of character c in letters, 0 when absent.
LetterIndex(c, letters) ==
    IF \E i \in 1..Len(letters) : letters[i] = c
    THEN CHOOSE i \in 1..Len(letters) : letters[i] = c
    ELSE 0

\* ------------------------------------------------------------ letter case
\* toUpperCase and toLowerCase convert by the case mapping of Unicode
\* (version 17.0), whatever the locale of the host.  A character is written
\* as itself where the module can spell it, and by its code point, U+XXXX,
\* where it cannot: every character beyond U+FFFF, every mark, separator and
\* format or control character, and every character whose code point ends in
\* a byte below 80 (hexadecimal) other than the printable ASCII characters.

\* The characters with an upper case of one other character.
SimpleUpperCase ==
    { << "a", "A" >>, << "b", "B" >>, << "c", "C" >>, << "d", "D" >>,
      << "e", "E" >>, << "f", "F" >>, << "g", "G" >>, << "h", "H" >>,
      << "i", "I" >>, << "j", "J" >>, << "k", "K" >>, << "l", "L" >>,
      << "m", "M" >>, << "n", "N" >>, << "o", "O" >>, << "p", "P" >>,
      << "q", "Q" >>, << "r", "R" >>, << "s", "S" >>, << "t", "T" >>,
      << "u", "U" >>, << "v", "V" >>, << "w", "W" >>, << "x", "X" >>,
      << "y", "Y" >>, << "z", "Z" >>, << "µ", "Μ" >>, << "à", "À" >>,
      << "á", "Á" >>, << "â", "Â" >>, << "ã", "Ã" >>, << "ä", "Ä" >>,
      << "å", "Å" >>, << "æ", "Æ" >>, << "ç", "Ç" >>, << "è", "È" >>,
      << "é", "É" >>, << "ê", "Ê" >>, << "ë", "Ë" >>, << "ì", "Ì" >>,
      << "í", "Í" >>, << "î", "Î" >>, << "ï", "Ï" >>, << "ð", "Ð" >>,
      << "ñ", "Ñ" >>, << "ò", "Ò" >>, << "ó", "Ó" >>, << "ô", "Ô" >>,
      << "õ", "Õ" >>, << "ö", "Ö" >>, << "ø", "Ø" >>, << "ù", "Ù" >>,
      << "ú", "Ú" >>, << "û", "Û" >>, << "ü", "Ü" >>, << "ý", "Ý" >>,
      << "þ", "Þ" >>, << "ÿ", "U+0178" >>, << "U+0101", "U+0100" >>,
      << "U+0103", "U+0102" >>, << "U+0105", "U+0104" >>,
      << "U+0107", "U+0106" >>, << "U+0109", "U+0108" >>,
      << "U+010B", "U+010A" >>, << "U+010D", "U+010C" >>,
      << "U+010F", "U+010E" >>, << "U+0111", "U+0110" >>,
      << "U+0113", "U+0112" >>, << "U+0115", "U+0114" >>,
      << "U+0117", "U+0116" >>, << "U+0119", "U+0118" >>,
      << "U+011B", "U+011A" >>, << "U+011D", "U+011C" >>,
      << "U+011F", "U+011E" >>, << "U+0121", "U+0120" >>,
      << "U+0123", "U+0122" >>, << "U+0125", "U+0124" >>,
      << "U+0127", "U+0126" >>, << "U+0129", "U+0128" >>,
      << "U+012B", "U+012A" >>, << "U+012D", "U+012C" >>,
      << "U+012F", "U+012E" >>, << "U+0131", "I" >>, << "U+0133", "U+0132" >>,
      << "U+0135", "U+0134" >>, << "U+0137", "U+0136" >>,
      << "U+013A", "U+0139" >>, << "U+013C", "U+013B" >>,
      << "U+013E", "U+013D" >>, << "U+0140", "U+013F" >>,
      << "U+0142", "U+0141" >>, << "U+0144", "U+0143" >>,
      << "U+0146", "U+0145" >>, << "U+0148", "U+0147" >>,
      << "U+014B", "U+014A" >>, << "U+014D", "U+014C" >>,
      << "U+014F", "U+014E" >>, << "U+0151", "U+0150" >>,
      << "U+0153", "U+0152" >>, << "U+0155", "U+0154" >>,
      << "U+0157", "U+0156" >>, << "U+0159", "U+0158" >>,
      << "U+015B", "U+015A" >>, << "U+015D", "U+015C" >>,
      << "U+015F", "U+015E" >>, << "U+0161", "U+0160" >>,
      << "U+0163", "U+0162" >>, << "U+0165", "U+0164" >>,
      << "U+0167", "U+0166" >>, << "U+0169", "U+0168" >>,
      << "U+016B", "U+016A" >>, << "U+016D", "U+016C" >>,
      << "U+016F", "U+016E" >>, << "U+0171", "U+0170" >>,
      << "U+0173", "U+0172" >>, << "U+0175", "U+0174" >>,
      << "U+0177", "U+0176" >>, << "U+017A", "U+0179" >>,
      << "U+017C", "U+017B" >>, << "U+017E", "U+017D" >>, << "U+017F", "S" >>,
      << "ƀ", "U+0243" >>, << "ƃ", "Ƃ" >>, << "ƅ", "Ƅ" >>, << "ƈ", "Ƈ" >>,
      << "ƌ", "Ƌ" >>, << "ƒ", "Ƒ" >>, << "ƕ", "Ƕ" >>, << "ƙ", "Ƙ" >>,
      << "ƚ", "U+023D" >>, << "ƛ", "Ƛ" >>, << "ƞ", "U+0220" >>,
      << "ơ", "Ơ" >>, << "ƣ", "Ƣ" >>, << "ƥ", "Ƥ" >>, << "ƨ", "Ƨ" >>,
      << "ƭ", "Ƭ" >>, << "ư", "Ư" >>, << "ƴ", "Ƴ" >>, << "ƶ", "Ƶ" >>,
      << "ƹ", "Ƹ" >>, << "ƽ", "Ƽ" >>, << "ƿ", "Ƿ" >>, << "ǅ", "Ǆ" >>,
      << "ǆ", "Ǆ" >>, << "ǈ", "Ǉ" >>, << "ǉ", "Ǉ" >>, << "ǋ", "Ǌ" >>,
      << "ǌ", "Ǌ" >>, << "ǎ", "Ǎ" >>, << "ǐ", "Ǐ" >>, << "ǒ", "Ǒ" >>,
      << "ǔ", "Ǔ" >>, << "ǖ", "Ǖ" >>, << "ǘ", "Ǘ" >>, << "ǚ", "Ǚ" >>,
      << "ǜ", "Ǜ" >>, << "ǝ", "Ǝ" >>, << "ǟ", "Ǟ" >>, << "ǡ", "Ǡ" >>,
      << "ǣ", "Ǣ" >>, << "ǥ", "Ǥ" >>, << "ǧ", "Ǧ" >>, << "ǩ", "Ǩ" >>,
      << "ǫ", "Ǫ" >>, << "ǭ", "Ǭ" >>, << "ǯ", "Ǯ" >>, << "ǲ", "Ǳ" >>,
      << "ǳ", "Ǳ" >>, << "ǵ", "Ǵ" >>, << "ǹ", "Ǹ" >>, << "ǻ", "Ǻ" >>,
      << "ǽ", "Ǽ" >>, << "ǿ", "Ǿ" >>, << "U+0201", "U+0200" >>,
      << "U+0203", "U+0202" >>, << "U+0205", "U+0204" >>,
      << "U+0207", "U+0206" >>, << "U+0209", "U+0208" >>,
      << "U+020B", "U+020A" >>, << "U+020D", "U+020C" >>,
      << "U+020F", "U+020E" >>, << "U+0211", "U+0210" >>,
      << "U+0213", "U+0212" >>, << "U+0215", "U+0214" >>,
      << "U+0217", "U+0216" >>, << "U+0219", "U+0218" >>,
      << "U+021B", "U+021A" >>, << "U+021D", "U+021C" >>,
      << "U+021F", "U+021E" >>, << "U+0223", "U+0222" >>,
      << "U+0225", "U+0224" >>, << "U+0227", "U+0226" >>,
      << "U+0229", "U+0228" >>, << "U+022B", "U+022A" >>,
      << "U+022D", "U+022C" >>, << "U+022F", "U+022E" >>,
      << "U+0231", "U+0230" >>, << "U+0233", "U+0232" >>,
      << "U+023C", "U+023B" >>, << "U+023F", "U+2C7E" >>,
      << "U+0240", "U+2C7F" >>, << "U+0242", "U+0241" >>,
      << "U+0247", "U+0246" >>, << "U+0249", "U+0248" >>,
      << "U+024B", "U+024A" >>, << "U+024D", "U+024C" >>,
      << "U+024F", "U+024E" >>, << "U+0250", "U+2C6F" >>,
      << "U+0251", "U+2C6D" >>, << "U+0252", "U+2C70" >>, << "U+0253", "Ɓ" >>,
      << "U+0254", "Ɔ" >>, << "U+0256", "Ɖ" >>, << "U+0257", "Ɗ" >>,
      << "U+0259", "Ə" >>, << "U+025B", "Ɛ" >>, << "U+025C", "Ɜ" >>,
      << "U+0260", "Ɠ" >>, << "U+0261", "Ɡ" >>, << "U+0263", "Ɣ" >>,
      << "U+0264", "Ɤ" >>, << "U+0265", "Ɥ" >>, << "U+0266", "Ɦ" >>,
      << "U+0268", "Ɨ" >>, << "U+0269", "Ɩ" >>, << "U+026A", "Ɪ" >>,
      << "U+026B", "U+2C62" >>, << "U+026C", "Ɬ" >>, << "U+026F", "Ɯ" >>,
      << "U+0271", "U+2C6E" >>, << "U+0272", "Ɲ" >>, << "U+0275", "Ɵ" >>,
      << "U+027D", "U+2C64" >>, << "ʀ", "Ʀ" >>, << "ʂ", "Ʂ" >>,
      << "ʃ", "Ʃ" >>, << "ʇ", "Ʇ" >>, << "ʈ", "Ʈ" >>, << "ʉ", "U+0244" >>,
      << "ʊ", "Ʊ" >>, << "ʋ", "Ʋ" >>, << "ʌ", "U+0245" >>, << "ʒ", "Ʒ" >>,
      << "ʝ", "Ʝ" >>, << "ʞ", "Ʞ" >>, << "U+0345", "Ι" >>,
      << "U+0371", "U+0370" >>, << "U+0373", "U+0372" >>,
      << "U+0377", "U+0376" >>, << "U+037B", "Ͻ" >>, << "U+037C", "Ͼ" >>,
      << "U+037D", "Ͽ" >>, << "ά", "Ά" >>, << "έ", "Έ" >>, << "ή", "Ή" >>,
      << "ί", "Ί" >>, << "α", "Α" >>, << "β", "Β" >>, << "γ", "Γ" >>,
      << "δ", "Δ" >>, << "ε", "Ε" >>, << "ζ", "Ζ" >>, << "η", "Η" >>,
      << "θ", "Θ" >>, << "ι", "Ι" >>, << "κ", "Κ" >>, << "λ", "Λ" >>,
      << "μ", "Μ" >>, << "ν", "Ν" >>, << "ξ", "Ξ" >>, << "ο", "Ο" >>,
      << "π", "Π" >>, << "ρ", "Ρ" >>, << "ς", "Σ" >>, << "σ", "Σ" >>,
      << "τ", "Τ" >>, << "υ", "Υ" >>, << "φ", "Φ" >>, << "χ", "Χ" >>,
      << "ψ", "Ψ" >>, << "ω", "Ω" >>, << "ϊ", "Ϊ" >>, << "ϋ", "Ϋ" >>,
      << "ό", "Ό" >>, << "ύ", "Ύ" >>, << "ώ", "Ώ" >>, << "ϐ", "Β" >>,
      << "ϑ", "Θ" >>, << "ϕ", "Φ" >>, << "ϖ", "Π" >>, << "ϗ", "Ϗ" >>,
      << "ϙ", "Ϙ" >>, << "ϛ", "Ϛ" >>, << "ϝ", "Ϝ" >>, << "ϟ", "Ϟ" >>,
      << "ϡ", "Ϡ" >>, << "ϣ", "Ϣ" >>, << "ϥ", "Ϥ" >>, << "ϧ", "Ϧ" >>,
      << "ϩ", "Ϩ" >>, << "ϫ", "Ϫ" >>, << "ϭ", "Ϭ" >>, << "ϯ", "Ϯ" >>,
      << "ϰ", "Κ" >>, << "ϱ", "Ρ" >>, << "ϲ", "Ϲ" >>, << "ϳ", "U+037F" >>,
      << "ϵ", "Ε" >>, << "ϸ", "Ϸ" >>, << "ϻ", "Ϻ" >>,
      << "U+0430", "U+0410" >>, << "U+0431", "U+0411" >>,
      << "U+0432", "U+0412" >>, << "U+0433", "U+0413" >>,
      << "U+0434", "U+0414" >>, << "U+0435", "U+0415" >>,
      << "U+0436", "U+0416" >>, << "U+0437", "U+0417" >>,
      << "U+0438", "U+0418" >>, << "U+0439", "U+0419" >>,
      << "U+043A", "U+041A" >>, << "U+043B", "U+041B" >>,
      << "U+043C", "U+041C" >>, << "U+043D", "U+041D" >>,
      << "U+043E", "U+041E" >>, << "U+043F", "U+041F" >>,
      << "U+0440", "U+0420" >>, << "U+0441", "U+0421" >>,
      << "U+0442", "U+0422" >>, << "U+0443", "U+0423" >>,
      << "U+0444", "U+0424" >>, << "U+0445", "U+0425" >>,
      << "U+0446", "U+0426" >>, << "U+0447", "U+0427" >>,
      << "U+0448", "U+0428" >>, << "U+0449", "U+0429" >>,
      << "U+044A", "U+042A" >>, << "U+044B", "U+042B" >>,
      << "U+044C", "U+042C" >>, << "U+044D", "U+042D" >>,
      << "U+044E", "U+042E" >>, << "U+044F", "U+042F" >>,
      << "U+0450", "U+0400" >>, << "U+0451", "U+0401" >>,
      << "U+0452", "U+0402" >>, << "U+0453", "U+0403" >>,
      << "U+0454", "U+0404" >>, << "U+0455", "U+0405" >>,
      << "U+0456", "U+0406" >>, << "U+0457", "U+0407" >>,
      << "U+0458", "U+0408" >>, << "U+0459", "U+0409" >>,
      << "U+045A", "U+040A" >>, << "U+045B", "U+040B" >>,
      << "U+045C", "U+040C" >>, << "U+045D", "U+040D" >>,
      << "U+045E", "U+040E" >>, << "U+045F", "U+040F" >>,
      << "U+0461", "U+0460" >>, << "U+0463", "U+0462" >>,
      << "U+0465", "U+0464" >>, << "U+0467", "U+0466" >>,
      << "U+0469", "U+0468" >>, << "U+046B", "U+046A" >>,
      << "U+046D", "U+046C" >>, << "U+046F", "U+046E" >>,
      << "U+0471", "U+0470" >>, << "U+0473", "U+0472" >>,
      << "U+0475", "U+0474" >>, << "U+0477", "U+0476" >>,
      << "U+0479", "U+0478" >>, << "U+047B", "U+047A" >>,
      << "U+047D", "U+047C" >>, << "U+047F", "U+047E" >>, << "ҁ", "Ҁ" >>,
      << "ҋ", "Ҋ" >>, << "ҍ", "Ҍ" >>, << "ҏ", "Ҏ" >>, << "ґ", "Ґ" >>,
      << "ғ", "Ғ" >>, << "ҕ", "Ҕ" >>, << "җ", "Җ" >>, << "ҙ", "Ҙ" >>,
      << "қ", "Қ" >>, << "ҝ", "Ҝ" >>, << "ҟ", "Ҟ" >>, << "ҡ", "Ҡ" >>,
      << "ң", "Ң" >>, << "ҥ", "Ҥ" >>, << "ҧ", "Ҧ" >>, << "ҩ", "Ҩ" >>,
      << "ҫ", "Ҫ" >>, << "ҭ", "Ҭ" >>, << "ү", "Ү" >>, << "ұ", "Ұ" >>,
      << "ҳ", "Ҳ" >>, << "ҵ", "Ҵ" >>, << "ҷ", "Ҷ" >>, << "ҹ", "Ҹ" >>,
      << "һ", "Һ" >>, << "ҽ", "Ҽ" >>, << "ҿ", "Ҿ" >>, << "ӂ", "Ӂ" >>,
      << "ӄ", "Ӄ" >>, << "ӆ", "Ӆ" >>, << "ӈ", "Ӈ" >>, << "ӊ", "Ӊ" >>,
      << "ӌ", "Ӌ" >>, << "ӎ", "Ӎ" >>, << "ӏ", "Ӏ" >>, << "ӑ", "Ӑ" >>,
      << "ӓ", "Ӓ" >>, << "ӕ", "Ӕ" >>, << "ӗ", "Ӗ" >>, << "ә", "Ә" >>,
      << "ӛ", "Ӛ" >>, << "ӝ", "Ӝ" >>, << "ӟ", "Ӟ" >>, << "ӡ", "Ӡ" >>,
      << "ӣ", "Ӣ" >>, << "ӥ", "Ӥ" >>, << "ӧ", "Ӧ" >>, << "ө", "Ө" >>,
      << "ӫ", "Ӫ" >>, << "ӭ", "Ӭ" >>, << "ӯ", "Ӯ" >>, << "ӱ", "Ӱ" >>,
      << "ӳ", "Ӳ" >>, << "ӵ", "Ӵ" >>, << "ӷ", "Ӷ" >>, << "ӹ", "Ӹ" >>,
      << "ӻ", "Ӻ" >>, << "ӽ", "Ӽ" >>, << "ӿ", "Ӿ" >>,
      << "U+0501", "U+0500" >>, << "U+0503", "U+0502" >>,
      << "U+0505", "U+0504" >>, << "U+0507", "U+0506" >>,
      << "U+0509", "U+0508" >>, << "U+050B", "U+050A" >>,
      << "U+050D", "U+050C" >>, << "U+050F", "U+050E" >>,
      << "U+0511", "U+0510" >>, << "U+0513", "U+0512" >>,
      << "U+0515", "U+0514" >>, << "U+0517", "U+0516" >>,
      << "U+0519", "U+0518" >>, << "U+051B", "U+051A" >>,
      << "U+051D", "U+051C" >>, << "U+051F", "U+051E" >>,
      << "U+0521", "U+0520" >>, << "U+0523", "U+0522" >>,
      << "U+0525", "U+0524" >>, << "U+0527", "U+0526" >>,
      << "U+0529", "U+0528" >>, << "U+052B", "U+052A" >>,
      << "U+052D", "U+052C" >>, << "U+052F", "U+052E" >>,
      << "U+0561", "U+0531" >>, << "U+0562", "U+0532" >>,
      << "U+0563", "U+0533" >>, << "U+0564", "U+0534" >>,
      << "U+0565", "U+0535" >>, << "U+0566", "U+0536" >>,
      << "U+0567", "U+0537" >>, << "U+0568", "U+0538" >>,
      << "U+0569", "U+0539" >>, << "U+056A", "U+053A" >>,
      << "U+056B", "U+053B" >>, << "U+056C", "U+053C" >>,
      << "U+056D", "U+053D" >>, << "U+056E", "U+053E" >>,
      << "U+056F", "U+053F" >>, << "U+0570", "U+0540" >>,
      << "U+0571", "U+0541" >>, << "U+0572", "U+0542" >>,
      << "U+0573", "U+0543" >>, << "U+0574", "U+0544" >>,
      << "U+0575", "U+0545" >>, << "U+0576", "U+0546" >>,
      << "U+0577", "U+0547" >>, << "U+0578", "U+0548" >>,
      << "U+0579", "U+0549" >>, << "U+057A", "U+054A" >>,
      << "U+057B", "U+054B" >>, << "U+057C", "U+054C" >>,
      << "U+057D", "U+054D" >>, << "U+057E", "U+054E" >>,
      << "U+057F", "U+054F" >>, << "ր", "U+0550" >>, << "ց", "U+0551" >>,
      << "ւ", "U+0552" >>, << "փ", "U+0553" >>, << "ք", "U+0554" >>,
      << "օ", "U+0555" >>, << "ֆ", "U+0556" >>, << "ა", "Ა" >>,
      << "ბ", "Ბ" >>, << "გ", "Გ" >>, << "დ", "Დ" >>, << "ე", "Ე" >>,
      << "ვ", "Ვ" >>, << "ზ", "Ზ" >>, << "თ", "Თ" >>, << "ი", "Ი" >>,
      << "კ", "Კ" >>, << "ლ", "Ლ" >>, << "მ", "Მ" >>, << "ნ", "Ნ" >>,
      << "ო", "Ო" >>, << "პ", "Პ" >>, << "ჟ", "Ჟ" >>, << "რ", "Რ" >>,
      << "ს", "Ს" >>, << "ტ", "Ტ" >>, << "უ", "Უ" >>, << "ფ", "Ფ" >>,
      << "ქ", "Ქ" >>, << "ღ", "Ღ" >>, << "ყ", "Ყ" >>, << "შ", "Შ" >>,
      << "ჩ", "Ჩ" >>, << "ც", "Ც" >>, << "ძ", "Ძ" >>, << "წ", "Წ" >>,
      << "ჭ", "Ჭ" >>, << "ხ", "Ხ" >>, << "ჯ", "Ჯ" >>, << "ჰ", "Ჰ" >>,
      << "ჱ", "Ჱ" >>, << "ჲ", "Ჲ" >>, << "ჳ", "Ჳ" >>, << "ჴ", "Ჴ" >>,
      << "ჵ", "Ჵ" >>, << "ჶ", "Ჶ" >>, << "ჷ", "Ჷ" >>, << "ჸ", "Ჸ" >>,
      << "ჹ", "Ჹ" >>, << "ჺ", "Ჺ" >>, << "ჽ", "Ჽ" >>, << "ჾ", "Ჾ" >>,
      << "ჿ", "Ჿ" >>, << "ᏸ", "Ᏸ" >>, << "ᏹ", "Ᏹ" >>, << "ᏺ", "Ᏺ" >>,
      << "ᏻ", "Ᏻ" >>, << "ᏼ", "Ᏼ" >>, << "ᏽ", "Ᏽ" >>, << "ᲀ", "U+0412" >>,
      << "ᲁ", "U+0414" >>, << "ᲂ", "U+041E" >>, << "ᲃ", "U+0421" >>,
      << "ᲄ", "U+0422" >>, << "ᲅ", "U+0422" >>, << "ᲆ", "U+042A" >>,
      << "ᲇ", "U+0462" >>, << "ᲈ", "U+A64A" >>, << "ᲊ", "Ᲊ" >>,
      << "U+1D79", "U+A77D" >>, << "U+1D7D", "U+2C63" >>, << "ᶎ", "Ᶎ" >>,
      << "U+1E01", "U+1E00" >>, << "U+1E03", "U+1E02" >>,
      << "U+1E05", "U+1E04" >>, << "U+1E07", "U+1E06" >>,
      << "U+1E09", "U+1E08" >>, << "U+1E0B", "U+1E0A" >>,
      << "U+1E0D", "U+1E0C" >>, << "U+1E0F", "U+1E0E" >>,
      << "U+1E11", "U+1E10" >>, << "U+1E13", "U+1E12" >>,
      << "U+1E15", "U+1E14" >>, << "U+1E17", "U+1E16" >>,
      << "U+1E19", "U+1E18" >>, << "U+1E1B", "U+1E1A" >>,
      << "U+1E1D", "U+1E1C" >>, << "U+1E1F", "U+1E1E" >>,
      << "U+1E21", "U+1E20" >>, << "U+1E23", "U+1E22" >>,
      << "U+1E25", "U+1E24" >>, << "U+1E27", "U+1E26" >>,
      << "U+1E29", "U+1E28" >>, << "U+1E2B", "U+1E2A" >>,
      << "U+1E2D", "U+1E2C" >>, << "U+1E2F", "U+1E2E" >>,
      << "U+1E31", "U+1E30" >>, << "U+1E33", "U+1E32" >>,
      << "U+1E35", "U+1E34" >>, << "U+1E37", "U+1E36" >>,
      << "U+1E39", "U+1E38" >>, << "U+1E3B", "U+1E3A" >>,
      << "U+1E3D", "U+1E3C" >>, << "U+1E3F", "U+1E3E" >>,
      << "U+1E41", "U+1E40" >>, << "U+1E43", "U+1E42" >>,
      << "U+1E45", "U+1E44" >>, << "U+1E47", "U+1E46" >>,
      << "U+1E49", "U+1E48" >>, << "U+1E4B", "U+1E4A" >>,
      << "U+1E4D", "U+1E4C" >>, << "U+1E4F", "U+1E4E" >>,
      << "U+1E51", "U+1E50" >>, << "U+1E53", "U+1E52" >>,
      << "U+1E55", "U+1E54" >>, << "U+1E57", "U+1E56" >>,
      << "U+1E59", "U+1E58" >>, << "U+1E5B", "U+1E5A" >>,
      << "U+1E5D", "U+1E5C" >>, << "U+1E5F", "U+1E5E" >>,
      << "U+1E61", "U+1E60" >>, << "U+1E63", "U+1E62" >>,
      << "U+1E65", "U+1E64" >>, << "U+1E67", "U+1E66" >>,
      << "U+1E69", "U+1E68" >>, << "U+1E6B", "U+1E6A" >>,
      << "U+1E6D", "U+1E6C" >>, << "U+1E6F", "U+1E6E" >>,
      << "U+1E71", "U+1E70" >>, << "U+1E73", "U+1E72" >>,
      << "U+1E75", "U+1E74" >>, << "U+1E77", "U+1E76" >>,
      << "U+1E79", "U+1E78" >>, << "U+1E7B", "U+1E7A" >>,
      << "U+1E7D", "U+1E7C" >>, << "U+1E7F", "U+1E7E" >>, << "ẁ", "Ẁ" >>,
      << "ẃ", "Ẃ" >>, << "ẅ", "Ẅ" >>, << "ẇ", "Ẇ" >>, << "ẉ", "Ẉ" >>,
      << "ẋ", "Ẋ" >>, << "ẍ", "Ẍ" >>, << "ẏ", "Ẏ" >>, << "ẑ", "Ẑ" >>,
      << "ẓ", "Ẓ" >>, << "ẕ", "Ẕ" >>, << "ẛ", "U+1E60" >>, << "ạ", "Ạ" >>,
      << "ả", "Ả" >>, << "ấ", "Ấ" >>, << "ầ", "Ầ" >>, << "ẩ", "Ẩ" >>,
      << "ẫ", "Ẫ" >>, << "ậ", "Ậ" >>, << "ắ", "Ắ" >>, << "ằ", "Ằ" >>,
      << "ẳ", "Ẳ" >>, << "ẵ", "Ẵ" >>, << "ặ", "Ặ" >>, << "ẹ", "Ẹ" >>,
      << "ẻ", "Ẻ" >>, << "ẽ", "Ẽ" >>, << "ế", "Ế" >>, << "ề", "Ề" >>,
      << "ể", "Ể" >>, << "ễ", "Ễ" >>, << "ệ", "Ệ" >>, << "ỉ", "Ỉ" >>,
      << "ị", "Ị" >>, << "ọ", "Ọ" >>, << "ỏ", "Ỏ" >>, << "ố", "Ố" >>,
      << "ồ", "Ồ" >>, << "ổ", "Ổ" >>, << "ỗ", "Ỗ" >>, << "ộ", "Ộ" >>,
      << "ớ", "Ớ" >>, << "ờ", "Ờ" >>, << "ở", "Ở" >>, << "ỡ", "Ỡ" >>,
      << "ợ", "Ợ" >>, << "ụ", "Ụ" >>, << "ủ", "Ủ" >>, << "ứ", "Ứ" >>,
      << "ừ", "Ừ" >>, << "ử", "Ử" >>, << "ữ", "Ữ" >>, << "ự", "Ự" >>,
      << "ỳ", "Ỳ" >>, << "ỵ", "Ỵ" >>, << "ỷ", "Ỷ" >>, << "ỹ", "Ỹ" >>,
      << "ỻ", "Ỻ" >>, << "ỽ", "Ỽ" >>, << "ỿ", "Ỿ" >>,
      << "U+1F00", "U+1F08" >>, << "U+1F01", "U+1F09" >>,
      << "U+1F02", "U+1F0A" >>, << "U+1F03", "U+1F0B" >>,
      << "U+1F04", "U+1F0C" >>, << "U+1F05", "U+1F0D" >>,
      << "U+1F06", "U+1F0E" >>, << "U+1F07", "U+1F0F" >>,
      << "U+1F10", "U+1F18" >>, << "U+1F11", "U+1F19" >>,
      << "U+1F12", "U+1F1A" >>, << "U+1F13", "U+1F1B" >>,
      << "U+1F14", "U+1F1C" >>, << "U+1F15", "U+1F1D" >>,
      << "U+1F20", "U+1F28" >>, << "U+1F21", "U+1F29" >>,
      << "U+1F22", "U+1F2A" >>, << "U+1F23", "U+1F2B" >>,
      << "U+1F24", "U+1F2C" >>, << "U+1F25", "U+1F2D" >>,
      << "U+1F26", "U+1F2E" >>, << "U+1F27", "U+1F2F" >>,
      << "U+1F30", "U+1F38" >>, << "U+1F31", "U+1F39" >>,
      << "U+1F32", "U+1F3A" >>, << "U+1F33", "U+1F3B" >>,
      << "U+1F34", "U+1F3C" >>, << "U+1F35", "U+1F3D" >>,
      << "U+1F36", "U+1F3E" >>, << "U+1F37", "U+1F3F" >>,
      << "U+1F40", "U+1F48" >>, << "U+1F41", "U+1F49" >>,
      << "U+1F42", "U+1F4A" >>, << "U+1F43", "U+1F4B" >>,
      << "U+1F44", "U+1F4C" >>, << "U+1F45", "U+1F4D" >>,
      << "U+1F51", "U+1F59" >>, << "U+1F53", "U+1F5B" >>,
      << "U+1F55", "U+1F5D" >>, << "U+1F57", "U+1F5F" >>,
      << "U+1F60", "U+1F68" >>, << "U+1F61", "U+1F69" >>,
      << "U+1F62", "U+1F6A" >>, << "U+1F63", "U+1F6B" >>,
      << "U+1F64", "U+1F6C" >>, << "U+1F65", "U+1F6D" >>,
      << "U+1F66", "U+1F6E" >>, << "U+1F67", "U+1F6F" >>, << "U+1F70", "Ὰ" >>,
      << "U+1F71", "Ά" >>, << "U+1F72", "Ὲ" >>, << "U+1F73", "Έ" >>,
      << "U+1F74", "Ὴ" >>, << "U+1F75", "Ή" >>, << "U+1F76", "Ὶ" >>,
      << "U+1F77", "Ί" >>, << "U+1F78", "Ὸ" >>, << "U+1F79", "Ό" >>,
      << "U+1F7A", "Ὺ" >>, << "U+1F7B", "Ύ" >>, << "U+1F7C", "Ὼ" >>,
      << "U+1F7D", "Ώ" >>, << "ᾰ", "Ᾰ" >>, << "ᾱ", "Ᾱ" >>, << "ι", "Ι" >>,
      << "ῐ", "Ῐ" >>, << "ῑ", "Ῑ" >>, << "ῠ", "Ῠ" >>, << "ῡ", "Ῡ" >>,
      << "ῥ", "Ῥ" >>, << "U+214E", "U+2132" >>, << "U+2170", "U+2160" >>,
      << "U+2171", "U+2161" >>, << "U+2172", "U+2162" >>,
      << "U+2173", "U+2163" >>, << "U+2174", "U+2164" >>,
      << "U+2175", "U+2165" >>, << "U+2176", "U+2166" >>,
      << "U+2177", "U+2167" >>, << "U+2178", "U+2168" >>,
      << "U+2179", "U+2169" >>, << "U+217A", "U+216A" >>,
      << "U+217B", "U+216B" >>, << "U+217C", "U+216C" >>,
      << "U+217D", "U+216D" >>, << "U+217E", "U+216E" >>,
      << "U+217F", "U+216F" >>, << "ↄ", "Ↄ" >>, << "ⓐ", "Ⓐ" >>,
      << "ⓑ", "Ⓑ" >>, << "ⓒ", "Ⓒ" >>, << "ⓓ", "Ⓓ" >>, << "ⓔ", "Ⓔ" >>,
      << "ⓕ", "Ⓕ" >>, << "ⓖ", "Ⓖ" >>, << "ⓗ", "Ⓗ" >>, << "ⓘ", "Ⓘ" >>,
      << "ⓙ", "Ⓙ" >>, << "ⓚ", "Ⓚ" >>, << "ⓛ", "Ⓛ" >>, << "ⓜ", "Ⓜ" >>,
      << "ⓝ", "Ⓝ" >>, << "ⓞ", "Ⓞ" >>, << "ⓟ", "Ⓟ" >>, << "ⓠ", "Ⓠ" >>,
      << "ⓡ", "Ⓡ" >>, << "ⓢ", "Ⓢ" >>, << "ⓣ", "Ⓣ" >>, << "ⓤ", "Ⓤ" >>,
      << "ⓥ", "Ⓥ" >>, << "ⓦ", "Ⓦ" >>, << "ⓧ", "Ⓧ" >>, << "ⓨ", "Ⓨ" >>,
      << "ⓩ", "Ⓩ" >>, << "U+2C30", "U+2C00" >>, << "U+2C31", "U+2C01" >>,
      << "U+2C32", "U+2C02" >>, << "U+2C33", "U+2C03" >>,
      << "U+2C34", "U+2C04" >>, << "U+2C35", "U+2C05" >>,
      << "U+2C36", "U+2C06" >>, << "U+2C37", "U+2C07" >>,
      << "U+2C38", "U+2C08" >>, << "U+2C39", "U+2C09" >>,
      << "U+2C3A", "U+2C0A" >>, << "U+2C3B", "U+2C0B" >>,
      << "U+2C3C", "U+2C0C" >>, << "U+2C3D", "U+2C0D" >>,
      << "U+2C3E", "U+2C0E" >>, << "U+2C3F", "U+2C0F" >>,
      << "U+2C40", "U+2C10" >>, << "U+2C41", "U+2C11" >>,
      << "U+2C42", "U+2C12" >>, << "U+2C43", "U+2C13" >>,
      << "U+2C44", "U+2C14" >>, << "U+2C45", "U+2C15" >>,
      << "U+2C46", "U+2C16" >>, << "U+2C47", "U+2C17" >>,
      << "U+2C48", "U+2C18" >>, << "U+2C49", "U+2C19" >>,
      << "U+2C4A", "U+2C1A" >>, << "U+2C4B", "U+2C1B" >>,
      << "U+2C4C", "U+2C1C" >>, << "U+2C4D", "U+2C1D" >>,
      << "U+2C4E", "U+2C1E" >>, << "U+2C4F", "U+2C1F" >>,
      << "U+2C50", "U+2C20" >>, << "U+2C51", "U+2C21" >>,
      << "U+2C52", "U+2C22" >>, << "U+2C53", "U+2C23" >>,
      << "U+2C54", "U+2C24" >>, << "U+2C55", "U+2C25" >>,
      << "U+2C56", "U+2C26" >>, << "U+2C57", "U+2C27" >>,
      << "U+2C58", "U+2C28" >>, << "U+2C59", "U+2C29" >>,
      << "U+2C5A", "U+2C2A" >>, << "U+2C5B", "U+2C2B" >>,
      << "U+2C5C", "U+2C2C" >>, << "U+2C5D", "U+2C2D" >>,
      << "U+2C5E", "U+2C2E" >>, << "U+2C5F", "U+2C2F" >>,
      << "U+2C61", "U+2C60" >>, << "U+2C65", "U+023A" >>,
      << "U+2C66", "U+023E" >>, << "U+2C68", "U+2C67" >>,
      << "U+2C6A", "U+2C69" >>, << "U+2C6C", "U+2C6B" >>,
      << "U+2C73", "U+2C72" >>, << "U+2C76", "U+2C75" >>, << "ⲁ", "Ⲁ" >>,
      << "ⲃ", "Ⲃ" >>, << "ⲅ", "Ⲅ" >>, << "ⲇ", "Ⲇ" >>, << "ⲉ", "Ⲉ" >>,
      << "ⲋ", "Ⲋ" >>, << "ⲍ", "Ⲍ" >>, << "ⲏ", "Ⲏ" >>, << "ⲑ", "Ⲑ" >>,
      << "ⲓ", "Ⲓ" >>, << "ⲕ", "Ⲕ" >>, << "ⲗ", "Ⲗ" >>, << "ⲙ", "Ⲙ" >>,
      << "ⲛ", "Ⲛ" >>, << "ⲝ", "Ⲝ" >>, << "ⲟ", "Ⲟ" >>, << "ⲡ", "Ⲡ" >>,
      << "ⲣ", "Ⲣ" >>, << "ⲥ", "Ⲥ" >>, << "ⲧ", "Ⲧ" >>, << "ⲩ", "Ⲩ" >>,
      << "ⲫ", "Ⲫ" >>, << "ⲭ", "Ⲭ" >>, << "ⲯ", "Ⲯ" >>, << "ⲱ", "Ⲱ" >>,
      << "ⲳ", "Ⲳ" >>, << "ⲵ", "Ⲵ" >>, << "ⲷ", "Ⲷ" >>, << "ⲹ", "Ⲹ" >>,
      << "ⲻ", "Ⲻ" >>, << "ⲽ", "Ⲽ" >>, << "ⲿ", "Ⲿ" >>, << "ⳁ", "Ⳁ" >>,
      << "ⳃ", "Ⳃ" >>, << "ⳅ", "Ⳅ" >>, << "ⳇ", "Ⳇ" >>, << "ⳉ", "Ⳉ" >>,
      << "ⳋ", "Ⳋ" >>, << "ⳍ", "Ⳍ" >>, << "ⳏ", "Ⳏ" >>, << "ⳑ", "Ⳑ" >>,
      << "ⳓ", "Ⳓ" >>, << "ⳕ", "Ⳕ" >>, << "ⳗ", "Ⳗ" >>, << "ⳙ", "Ⳙ" >>,
      << "ⳛ", "Ⳛ" >>, << "ⳝ", "Ⳝ" >>, << "ⳟ", "Ⳟ" >>, << "ⳡ", "Ⳡ" >>,
      << "ⳣ", "Ⳣ" >>, << "ⳬ", "Ⳬ" >>, << "ⳮ", "Ⳮ" >>, << "ⳳ", "Ⳳ" >>,
      << "U+2D00", "Ⴀ" >>, << "U+2D01", "Ⴁ" >>, << "U+2D02", "Ⴂ" >>,
      << "U+2D03", "Ⴃ" >>, << "U+2D04", "Ⴄ" >>, << "U+2D05", "Ⴅ" >>,
      << "U+2D06", "Ⴆ" >>, << "U+2D07", "Ⴇ" >>, << "U+2D08", "Ⴈ" >>,
      << "U+2D09", "Ⴉ" >>, << "U+2D0A", "Ⴊ" >>, << "U+2D0B", "Ⴋ" >>,
      << "U+2D0C", "Ⴌ" >>, << "U+2D0D", "Ⴍ" >>, << "U+2D0E", "Ⴎ" >>,
      << "U+2D0F", "Ⴏ" >>, << "U+2D10", "Ⴐ" >>, << "U+2D11", "Ⴑ" >>,
      << "U+2D12", "Ⴒ" >>, << "U+2D13", "Ⴓ" >>, << "U+2D14", "Ⴔ" >>,
      << "U+2D15", "Ⴕ" >>, << "U+2D16", "Ⴖ" >>, << "U+2D17", "Ⴗ" >>,
      << "U+2D18", "Ⴘ" >>, << "U+2D19", "Ⴙ" >>, << "U+2D1A", "Ⴚ" >>,
      << "U+2D1B", "Ⴛ" >>, << "U+2D1C", "Ⴜ" >>, << "U+2D1D", "Ⴝ" >>,
      << "U+2D1E", "Ⴞ" >>, << "U+2D1F", "Ⴟ" >>, << "U+2D20", "Ⴠ" >>,
      << "U+2D21", "Ⴡ" >>, << "U+2D22", "Ⴢ" >>, << "U+2D23", "Ⴣ" >>,
      << "U+2D24", "Ⴤ" >>, << "U+2D25", "Ⴥ" >>, << "U+2D27", "Ⴧ" >>,
      << "U+2D2D", "Ⴭ" >>, << "U+A641", "U+A640" >>, << "U+A643", "U+A642" >>,
      << "U+A645", "U+A644" >>, << "U+A647", "U+A646" >>,
      << "U+A649", "U+A648" >>, << "U+A64B", "U+A64A" >>,
      << "U+A64D", "U+A64C" >>, << "U+A64F", "U+A64E" >>,
      << "U+A651", "U+A650" >>, << "U+A653", "U+A652" >>,
      << "U+A655", "U+A654" >>, << "U+A657", "U+A656" >>,
      << "U+A659", "U+A658" >>, << "U+A65B", "U+A65A" >>,
      << "U+A65D", "U+A65C" >>, << "U+A65F", "U+A65E" >>,
      << "U+A661", "U+A660" >>, << "U+A663", "U+A662" >>,
      << "U+A665", "U+A664" >>, << "U+A667", "U+A666" >>,
      << "U+A669", "U+A668" >>, << "U+A66B", "U+A66A" >>,
      << "U+A66D", "U+A66C" >>, << "ꚁ", "Ꚁ" >>, << "ꚃ", "Ꚃ" >>,
      << "ꚅ", "Ꚅ" >>, << "ꚇ", "Ꚇ" >>, << "ꚉ", "Ꚉ" >>, << "ꚋ", "Ꚋ" >>,
      << "ꚍ", "Ꚍ" >>, << "ꚏ", "Ꚏ" >>, << "ꚑ", "Ꚑ" >>, << "ꚓ", "Ꚓ" >>,
      << "ꚕ", "Ꚕ" >>, << "ꚗ", "Ꚗ" >>, << "ꚙ", "Ꚙ" >>, << "ꚛ", "Ꚛ" >>,
      << "U+A723", "U+A722" >>, << "U+A725", "U+A724" >>,
      << "U+A727", "U+A726" >>, << "U+A729", "U+A728" >>,
      << "U+A72B", "U+A72A" >>, << "U+A72D", "U+A72C" >>,
      << "U+A72F", "U+A72E" >>, << "U+A733", "U+A732" >>,
      << "U+A735", "U+A734" >>, << "U+A737", "U+A736" >>,
      << "U+A739", "U+A738" >>, << "U+A73B", "U+A73A" >>,
      << "U+A73D", "U+A73C" >>, << "U+A73F", "U+A73E" >>,
      << "U+A741", "U+A740" >>, << "U+A743", "U+A742" >>,
      << "U+A745", "U+A744" >>, << "U+A747", "U+A746" >>,
      << "U+A749", "U+A748" >>, << "U+A74B", "U+A74A" >>,
      << "U+A74D", "U+A74C" >>, << "U+A74F", "U+A74E" >>,
      << "U+A751", "U+A750" >>, << "U+A753", "U+A752" >>,
      << "U+A755", "U+A754" >>, << "U+A757", "U+A756" >>,
      << "U+A759", "U+A758" >>, << "U+A75B", "U+A75A" >>,
      << "U+A75D", "U+A75C" >>, << "U+A75F", "U+A75E" >>,
      << "U+A761", "U+A760" >>, << "U+A763", "U+A762" >>,
      << "U+A765", "U+A764" >>, << "U+A767", "U+A766" >>,
      << "U+A769", "U+A768" >>, << "U+A76B", "U+A76A" >>,
      << "U+A76D", "U+A76C" >>, << "U+A76F", "U+A76E" >>,
      << "U+A77A", "U+A779" >>, << "U+A77C", "U+A77B" >>,
      << "U+A77F", "U+A77E" >>, << "ꞁ", "Ꞁ" >>, << "ꞃ", "Ꞃ" >>,
      << "ꞅ", "Ꞅ" >>, << "ꞇ", "Ꞇ" >>, << "ꞌ", "Ꞌ" >>, << "ꞑ", "Ꞑ" >>,
      << "ꞓ", "Ꞓ" >>, << "ꞔ", "Ꞔ" >>, << "ꞗ", "Ꞗ" >>, << "ꞙ", "Ꞙ" >>,
      << "ꞛ", "Ꞛ" >>, << "ꞝ", "Ꞝ" >>, << "ꞟ", "Ꞟ" >>, << "ꞡ", "Ꞡ" >>,
      << "ꞣ", "Ꞣ" >>, << "ꞥ", "Ꞥ" >>, << "ꞧ", "Ꞧ" >>, << "ꞩ", "Ꞩ" >>,
      << "ꞵ", "Ꞵ" >>, << "ꞷ", "Ꞷ" >>, << "ꞹ", "Ꞹ" >>, << "ꞻ", "Ꞻ" >>,
      << "ꞽ", "Ꞽ" >>, << "ꞿ", "Ꞿ" >>, << "ꟁ", "Ꟁ" >>, << "ꟃ", "Ꟃ" >>,
      << "ꟈ", "Ꟈ" >>, << "ꟊ", "Ꟊ" >>, << "ꟍ", "Ꟍ" >>, << "꟏", "꟎" >>,
      << "ꟑ", "Ꟑ" >>, << "ꟓ", "꟒" >>, << "ꟕ", "꟔" >>, << "ꟗ", "Ꟗ" >>,
      << "ꟙ", "Ꟙ" >>, << "ꟛ", "Ꟛ" >>, << "ꟶ", "Ꟶ" >>, << "U+AB53", "Ꭓ" >>,
      << "U+AB70", "Ꭰ" >>, << "U+AB71", "Ꭱ" >>, << "U+AB72", "Ꭲ" >>,
      << "U+AB73", "Ꭳ" >>, << "U+AB74", "Ꭴ" >>, << "U+AB75", "Ꭵ" >>,
      << "U+AB76", "Ꭶ" >>, << "U+AB77", "Ꭷ" >>, << "U+AB78", "Ꭸ" >>,
      << "U+AB79", "Ꭹ" >>, << "U+AB7A", "Ꭺ" >>, << "U+AB7B", "Ꭻ" >>,
      << "U+AB7C", "Ꭼ" >>, << "U+AB7D", "Ꭽ" >>, << "U+AB7E", "Ꭾ" >>,
      << "U+AB7F", "Ꭿ" >>, << "ꮀ", "Ꮀ" >>, << "ꮁ", "Ꮁ" >>, << "ꮂ", "Ꮂ" >>,
      << "ꮃ", "Ꮃ" >>, << "ꮄ", "Ꮄ" >>, << "ꮅ", "Ꮅ" >>, << "ꮆ", "Ꮆ" >>,
      << "ꮇ", "Ꮇ" >>, << "ꮈ", "Ꮈ" >>, << "ꮉ", "Ꮉ" >>, << "ꮊ", "Ꮊ" >>,
      << "ꮋ", "Ꮋ" >>, << "ꮌ", "Ꮌ" >>, << "ꮍ", "Ꮍ" >>, << "ꮎ", "Ꮎ" >>,
      << "ꮏ", "Ꮏ" >>, << "ꮐ", "Ꮐ" >>, << "ꮑ", "Ꮑ" >>, << "ꮒ", "Ꮒ" >>,
      << "ꮓ", "Ꮓ" >>, << "ꮔ", "Ꮔ" >>, << "ꮕ", "Ꮕ" >>, << "ꮖ", "Ꮖ" >>,
      << "ꮗ", "Ꮗ" >>, << "ꮘ", "Ꮘ" >>, << "ꮙ", "Ꮙ" >>, << "ꮚ", "Ꮚ" >>,
      << "ꮛ", "Ꮛ" >>, << "ꮜ", "Ꮜ" >>, << "ꮝ", "Ꮝ" >>, << "ꮞ", "Ꮞ" >>,
      << "ꮟ", "Ꮟ" >>, << "ꮠ", "Ꮠ" >>, << "ꮡ", "Ꮡ" >>, << "ꮢ", "Ꮢ" >>,
      << "ꮣ", "Ꮣ" >>, << "ꮤ", "Ꮤ" >>, << "ꮥ", "Ꮥ" >>, << "ꮦ", "Ꮦ" >>,
      << "ꮧ", "Ꮧ" >>, << "ꮨ", "Ꮨ" >>, << "ꮩ", "Ꮩ" >>, << "ꮪ", "Ꮪ" >>,
      << "ꮫ", "Ꮫ" >>, << "ꮬ", "Ꮬ" >>, << "ꮭ", "Ꮭ" >>, << "ꮮ", "Ꮮ" >>,
      << "ꮯ", "Ꮯ" >>, << "ꮰ", "Ꮰ" >>, << "ꮱ", "Ꮱ" >>, << "ꮲ", "Ꮲ" >>,
      << "ꮳ", "Ꮳ" >>, << "ꮴ", "Ꮴ" >>, << "ꮵ", "Ꮵ" >>, << "ꮶ", "Ꮶ" >>,
      << "ꮷ", "Ꮷ" >>, << "ꮸ", "Ꮸ" >>, << "ꮹ", "Ꮹ" >>, << "ꮺ", "Ꮺ" >>,
      << "ꮻ", "Ꮻ" >>, << "ꮼ", "Ꮼ" >>, << "ꮽ", "Ꮽ" >>, << "ꮾ", "Ꮾ" >>,
      << "ꮿ", "Ꮿ" >>, << "U+FF41", "U+FF21" >>, << "U+FF42", "U+FF22" >>,
      << "U+FF43", "U+FF23" >>, << "U+FF44", "U+FF24" >>,
      << "U+FF45", "U+FF25" >>, << "U+FF46", "U+FF26" >>,
      << "U+FF47", "U+FF27" >>, << "U+FF48", "U+FF28" >>,
      << "U+FF49", "U+FF29" >>, << "U+FF4A", "U+FF2A" >>,
      << "U+FF4B", "U+FF2B" >>, << "U+FF4C", "U+FF2C" >>,
      << "U+FF4D", "U+FF2D" >>, << "U+FF4E", "U+FF2E" >>,
      << "U+FF4F", "U+FF2F" >>, << "U+FF50", "U+FF30" >>,
      << "U+FF51", "U+FF31" >>, << "U+FF52", "U+FF32" >>,
      << "U+FF53", "U+FF33" >>, << "U+FF54", "U+FF34" >>,
      << "U+FF55", "U+FF35" >>, << "U+FF56", "U+FF36" >>,
      << "U+FF57", "U+FF37" >>, << "U+FF58", "U+FF38" >>,
      << "U+FF59", "U+FF39" >>, << "U+FF5A", "U+FF3A" >>,
      << "U+10428", "U+10400" >>, << "U+10429", "U+10401" >>,
      << "U+1042A", "U+10402" >>, << "U+1042B", "U+10403" >>,
      << "U+1042C", "U+10404" >>, << "U+1042D", "U+10405" >>,
      << "U+1042E", "U+10406" >>, << "U+1042F", "U+10407" >>,
      << "U+10430", "U+10408" >>, << "U+10431", "U+10409" >>,
      << "U+10432", "U+1040A" >>, << "U+10433", "U+1040B" >>,
      << "U+10434", "U+1040C" >>, << "U+10435", "U+1040D" >>,
      << "U+10436", "U+1040E" >>, << "U+10437", "U+1040F" >>,
      << "U+10438", "U+10410" >>, << "U+10439", "U+10411" >>,
      << "U+1043A", "U+10412" >>, << "U+1043B", "U+10413" >>,
      << "U+1043C", "U+10414" >>, << "U+1043D", "U+10415" >>,
      << "U+1043E", "U+10416" >>, << "U+1043F", "U+10417" >>,
      << "U+10440", "U+10418" >>, << "U+10441", "U+10419" >>,
      << "U+10442", "U+1041A" >>, << "U+10443", "U+1041B" >>,
      << "U+10444", "U+1041C" >>, << "U+10445", "U+1041D" >>,
      << "U+10446", "U+1041E" >>, << "U+10447", "U+1041F" >>,
      << "U+10448", "U+10420" >>, << "U+10449", "U+10421" >>,
      << "U+1044A", "U+10422" >>, << "U+1044B", "U+10423" >>,
      << "U+1044C", "U+10424" >>, << "U+1044D", "U+10425" >>,
      << "U+1044E", "U+10426" >>, << "U+1044F", "U+10427" >>,
      << "U+104D8", "U+104B0" >>, << "U+104D9", "U+104B1" >>,
      << "U+104DA", "U+104B2" >>, << "U+104DB", "U+104B3" >>,
      << "U+104DC", "U+104B4" >>, << "U+104DD", "U+104B5" >>,
      << "U+104DE", "U+104B6" >>, << "U+104DF", "U+104B7" >>,
      << "U+104E0", "U+104B8" >>, << "U+104E1", "U+104B9" >>,
      << "U+104E2", "U+104BA" >>, << "U+104E3", "U+104BB" >>,
      << "U+104E4", "U+104BC" >>, << "U+104E5", "U+104BD" >>,
      << "U+104E6", "U+104BE" >>, << "U+104E7", "U+104BF" >>,
      << "U+104E8", "U+104C0" >>, << "U+104E9", "U+104C1" >>,
      << "U+104EA", "U+104C2" >>, << "U+104EB", "U+104C3" >>,
      << "U+104EC", "U+104C4" >>, << "U+104ED", "U+104C5" >>,
      << "U+104EE", "U+104C6" >>, << "U+104EF", "U+104C7" >>,
      << "U+104F0", "U+104C8" >>, << "U+104F1", "U+104C9" >>,
      << "U+104F2", "U+104CA" >>, << "U+104F3", "U+104CB" >>,
      << "U+104F4", "U+104CC" >>, << "U+104F5", "U+104CD" >>,
      << "U+104F6", "U+104CE" >>, << "U+104F7", "U+104CF" >>,
      << "U+104F8", "U+104D0" >>, << "U+104F9", "U+104D1" >>,
      << "U+104FA", "U+104D2" >>, << "U+104FB", "U+104D3" >>,
      << "U+10597", "U+10570" >>, << "U+10598", "U+10571" >>,
      << "U+10599", "U+10572" >>, << "U+1059A", "U+10573" >>,
      << "U+1059B", "U+10574" >>, << "U+1059C", "U+10575" >>,
      << "U+1059D", "U+10576" >>, << "U+1059E", "U+10577" >>,
      << "U+1059F", "U+10578" >>, << "U+105A0", "U+10579" >>,
      << "U+105A1", "U+1057A" >>, << "U+105A3", "U+1057C" >>,
      << "U+105A4", "U+1057D" >>, << "U+105A5", "U+1057E" >>,
      << "U+105A6", "U+1057F" >>, << "U+105A7", "U+10580" >>,
      << "U+105A8", "U+10581" >>, << "U+105A9", "U+10582" >>,
      << "U+105AA", "U+10583" >>, << "U+105AB", "U+10584" >>,
      << "U+105AC", "U+10585" >>, << "U+105AD", "U+10586" >>,
      << "U+105AE", "U+10587" >>, << "U+105AF", "U+10588" >>,
      << "U+105B0", "U+10589" >>, << "U+105B1", "U+1058A" >>,
      << "U+105B3", "U+1058C" >>, << "U+105B4", "U+1058D" >>,
      << "U+105B5", "U+1058E" >>, << "U+105B6", "U+1058F" >>,
      << "U+105B7", "U+10590" >>, << "U+105B8", "U+10591" >>,
      << "U+105B9", "U+10592" >>, << "U+105BB", "U+10594" >>,
      << "U+105BC", "U+10595" >>, << "U+10CC0", "U+10C80" >>,
      << "U+10CC1", "U+10C81" >>, << "U+10CC2", "U+10C82" >>,
      << "U+10CC3", "U+10C83" >>, << "U+10CC4", "U+10C84" >>,
      << "U+10CC5", "U+10C85" >>, << "U+10CC6", "U+10C86" >>,
      << "U+10CC7", "U+10C87" >>, << "U+10CC8", "U+10C88" >>,
      << "U+10CC9", "U+10C89" >>, << "U+10CCA", "U+10C8A" >>,
      << "U+10CCB", "U+10C8B" >>, << "U+10CCC", "U+10C8C" >>,
      << "U+10CCD", "U+10C8D" >>, << "U+10CCE", "U+10C8E" >>,
      << "U+10CCF", "U+10C8F" >>, << "U+10CD0", "U+10C90" >>,
      << "U+10CD1", "U+10C91" >>, << "U+10CD2", "U+10C92" >>,
      << "U+10CD3", "U+10C93" >>, << "U+10CD4", "U+10C94" >>,
      << "U+10CD5", "U+10C95" >>, << "U+10CD6", "U+10C96" >>,
      << "U+10CD7", "U+10C97" >>, << "U+10CD8", "U+10C98" >>,
      << "U+10CD9", "U+10C99" >>, << "U+10CDA", "U+10C9A" >>,
      << "U+10CDB", "U+10C9B" >>, << "U+10CDC", "U+10C9C" >>,
      << "U+10CDD", "U+10C9D" >>, << "U+10CDE", "U+10C9E" >>,
      << "U+10CDF", "U+10C9F" >>, << "U+10CE0", "U+10CA0" >>,
      << "U+10CE1", "U+10CA1" >>, << "U+10CE2", "U+10CA2" >>,
      << "U+10CE3", "U+10CA3" >>, << "U+10CE4", "U+10CA4" >>,
      << "U+10CE5", "U+10CA5" >>, << "U+10CE6", "U+10CA6" >>,
      << "U+10CE7", "U+10CA7" >>, << "U+10CE8", "U+10CA8" >>,
      << "U+10CE9", "U+10CA9" >>, << "U+10CEA", "U+10CAA" >>,
      << "U+10CEB", "U+10CAB" >>, << "U+10CEC", "U+10CAC" >>,
      << "U+10CED", "U+10CAD" >>, << "U+10CEE", "U+10CAE" >>,
      << "U+10CEF", "U+10CAF" >>, << "U+10CF0", "U+10CB0" >>,
      << "U+10CF1", "U+10CB1" >>, << "U+10CF2", "U+10CB2" >>,
      << "U+10D70", "U+10D50" >>, << "U+10D71", "U+10D51" >>,
      << "U+10D72", "U+10D52" >>, << "U+10D73", "U+10D53" >>,
      << "U+10D74", "U+10D54" >>, << "U+10D75", "U+10D55" >>,
      << "U+10D76", "U+10D56" >>, << "U+10D77", "U+10D57" >>,
      << "U+10D78", "U+10D58" >>, << "U+10D79", "U+10D59" >>,
      << "U+10D7A", "U+10D5A" >>, << "U+10D7B", "U+10D5B" >>,
      << "U+10D7C", "U+10D5C" >>, << "U+10D7D", "U+10D5D" >>,
      << "U+10D7E", "U+10D5E" >>, << "U+10D7F", "U+10D5F" >>,
      << "U+10D80", "U+10D60" >>, << "U+10D81", "U+10D61" >>,
      << "U+10D82", "U+10D62" >>, << "U+10D83", "U+10D63" >>,
      << "U+10D84", "U+10D64" >>, << "U+10D85", "U+10D65" >>,
      << "U+118C0", "U+118A0" >>, << "U+118C1", "U+118A1" >>,
      << "U+118C2", "U+118A2" >>, << "U+118C3", "U+118A3" >>,
      << "U+118C4", "U+118A4" >>, << "U+118C5", "U+118A5" >>,
      << "U+118C6", "U+118A6" >>, << "U+118C7", "U+118A7" >>,
      << "U+118C8", "U+118A8" >>, << "U+118C9", "U+118A9" >>,
      << "U+118CA", "U+118AA" >>, << "U+118CB", "U+118AB" >>,
      << "U+118CC", "U+118AC" >>, << "U+118CD", "U+118AD" >>,
      << "U+118CE", "U+118AE" >>, << "U+118CF", "U+118AF" >>,
      << "U+118D0", "U+118B0" >>, << "U+118D1", "U+118B1" >>,
      << "U+118D2", "U+118B2" >>, << "U+118D3", "U+118B3" >>,
      << "U+118D4", "U+118B4" >>, << "U+118D5", "U+118B5" >>,
      << "U+118D6", "U+118B6" >>, << "U+118D7", "U+118B7" >>,
      << "U+118D8", "U+118B8" >>, << "U+118D9", "U+118B9" >>,
      << "U+118DA", "U+118BA" >>, << "U+118DB", "U+118BB" >>,
      << "U+118DC", "U+118BC" >>, << "U+118DD", "U+118BD" >>,
      << "U+118DE", "U+118BE" >>, << "U+118DF", "U+118BF" >>,
      << "U+16E60", "U+16E40" >>, << "U+16E61", "U+16E41" >>,
      << "U+16E62", "U+16E42" >>, << "U+16E63", "U+16E43" >>,
      << "U+16E64", "U+16E44" >>, << "U+16E65", "U+16E45" >>,
      << "U+16E66", "U+16E46" >>, << "U+16E67", "U+16E47" >>,
      << "U+16E68", "U+16E48" >>, << "U+16E69", "U+16E49" >>,
      << "U+16E6A", "U+16E4A" >>, << "U+16E6B", "U+16E4B" >>,
      << "U+16E6C", "U+16E4C" >>, << "U+16E6D", "U+16E4D" >>,
      << "U+16E6E", "U+16E4E" >>, << "U+16E6F", "U+16E4F" >>,
      << "U+16E70", "U+16E50" >>, << "U+16E71", "U+16E51" >>,
      << "U+16E72", "U+16E52" >>, << "U+16E73", "U+16E53" >>,
      << "U+16E74", "U+16E54" >>, << "U+16E75", "U+16E55" >>,
      << "U+16E76", "U+16E56" >>, << "U+16E77", "U+16E57" >>,
      << "U+16E78", "U+16E58" >>, << "U+16E79", "U+16E59" >>,
      << "U+16E7A", "U+16E5A" >>, << "U+16E7B", "U+16E5B" >>,
      << "U+16E7C", "U+16E5C" >>, << "U+16E7D", "U+16E5D" >>,
      << "U+16E7E", "U+16E5E" >>, << "U+16E7F", "U+16E5F" >>,
      << "U+16EBB", "U+16EA0" >>, << "U+16EBC", "U+16EA1" >>,
      << "U+16EBD", "U+16EA2" >>, << "U+16EBE", "U+16EA3" >>,
      << "U+16EBF", "U+16EA4" >>, << "U+16EC0", "U+16EA5" >>,
      << "U+16EC1", "U+16EA6" >>, << "U+16EC2", "U+16EA7" >>,
      << "U+16EC3", "U+16EA8" >>, << "U+16EC4", "U+16EA9" >>,
      << "U+16EC5", "U+16EAA" >>, << "U+16EC6", "U+16EAB" >>,
      << "U+16EC7", "U+16EAC" >>, << "U+16EC8", "U+16EAD" >>,
      << "U+16EC9", "U+16EAE" >>, << "U+16ECA", "U+16EAF" >>,
      << "U+16ECB", "U+16EB0" >>, << "U+16ECC", "U+16EB1" >>,
      << "U+16ECD", "U+16EB2" >>, << "U+16ECE", "U+16EB3" >>,
      << "U+16ECF", "U+16EB4" >>, << "U+16ED0", "U+16EB5" >>,
      << "U+16ED1", "U+16EB6" >>, << "U+16ED2", "U+16EB7" >>,
      << "U+16ED3", "U+16EB8" >>, << "U+1E922", "U+1E900" >>,
      << "U+1E923", "U+1E901" >>, << "U+1E924", "U+1E902" >>,
      << "U+1E925", "U+1E903" >>, << "U+1E926", "U+1E904" >>,
      << "U+1E927", "U+1E905" >>, << "U+1E928", "U+1E906" >>,
      << "U+1E929", "U+1E907" >>, << "U+1E92A", "U+1E908" >>,
      << "U+1E92B", "U+1E909" >>, << "U+1E92C", "U+1E90A" >>,
      << "U+1E92D", "U+1E90B" >>, << "U+1E92E", "U+1E90C" >>,
      << "U+1E92F", "U+1E90D" >>, << "U+1E930", "U+1E90E" >>,
      << "U+1E931", "U+1E90F" >>, << "U+1E932", "U+1E910" >>,
      << "U+1E933", "U+1E911" >>, << "U+1E934", "U+1E912" >>,
      << "U+1E935", "U+1E913" >>, << "U+1E936", "U+1E914" >>,
      << "U+1E937", "U+1E915" >>, << "U+1E938", "U+1E916" >>,
      << "U+1E939", "U+1E917" >>, << "U+1E93A", "U+1E918" >>,
      << "U+1E93B", "U+1E919" >>, << "U+1E93C", "U+1E91A" >>,
      << "U+1E93D", "U+1E91B" >>, << "U+1E93E", "U+1E91C" >>,
      << "U+1E93F", "U+1E91D" >>, << "U+1E940", "U+1E91E" >>,
      << "U+1E941", "U+1E91F" >>, << "U+1E942", "U+1E920" >>,
      << "U+1E943", "U+1E921" >> }

\* The characters with an upper case of two or three characters.
SpecialUpperCase ==
    { << "ß", << "S", "S" >> >>, << "U+0149", << "ʼ", "N" >> >>,
      << "ǰ", << "J", "U+030C" >> >>,
      << "ΐ", << "Ι", "U+0308", "U+0301" >> >>,
      << "ΰ", << "Υ", "U+0308", "U+0301" >> >>,
      << "և", << "U+0535", "U+0552" >> >>, << "ẖ", << "H", "U+0331" >> >>,
      << "ẗ", << "T", "U+0308" >> >>, << "ẘ", << "W", "U+030A" >> >>,
      << "ẙ", << "Y", "U+030A" >> >>, << "ẚ", << "A", "ʾ" >> >>,
      << "U+1F50", << "Υ", "U+0313" >> >>,
      << "U+1F52", << "Υ", "U+0313", "U+0300" >> >>,
      << "U+1F54", << "Υ", "U+0313", "U+0301" >> >>,
      << "U+1F56", << "Υ", "U+0313", "U+0342" >> >>,
      << "ᾀ", << "U+1F08", "Ι" >> >>, << "ᾁ", << "U+1F09", "Ι" >> >>,
      << "ᾂ", << "U+1F0A", "Ι" >> >>, << "ᾃ", << "U+1F0B", "Ι" >> >>,
      << "ᾄ", << "U+1F0C", "Ι" >> >>, << "ᾅ", << "U+1F0D", "Ι" >> >>,
      << "ᾆ", << "U+1F0E", "Ι" >> >>, << "ᾇ", << "U+1F0F", "Ι" >> >>,
      << "ᾈ", << "U+1F08", "Ι" >> >>, << "ᾉ", << "U+1F09", "Ι" >> >>,
      << "ᾊ", << "U+1F0A", "Ι" >> >>, << "ᾋ", << "U+1F0B", "Ι" >> >>,
      << "ᾌ", << "U+1F0C", "Ι" >> >>, << "ᾍ", << "U+1F0D", "Ι" >> >>,
      << "ᾎ", << "U+1F0E", "Ι" >> >>, << "ᾏ", << "U+1F0F", "Ι" >> >>,
      << "ᾐ", << "U+1F28", "Ι" >> >>, << "ᾑ", << "U+1F29", "Ι" >> >>,
      << "ᾒ", << "U+1F2A", "Ι" >> >>, << "ᾓ", << "U+1F2B", "Ι" >> >>,
      << "ᾔ", << "U+1F2C", "Ι" >> >>, << "ᾕ", << "U+1F2D", "Ι" >> >>,
      << "ᾖ", << "U+1F2E", "Ι" >> >>, << "ᾗ", << "U+1F2F", "Ι" >> >>,
      << "ᾘ", << "U+1F28", "Ι" >> >>, << "ᾙ", << "U+1F29", "Ι" >> >>,
      << "ᾚ", << "U+1F2A", "Ι" >> >>, << "ᾛ", << "U+1F2B", "Ι" >> >>,
      << "ᾜ", << "U+1F2C", "Ι" >> >>, << "ᾝ", << "U+1F2D", "Ι" >> >>,
      << "ᾞ", << "U+1F2E", "Ι" >> >>, << "ᾟ", << "U+1F2F", "Ι" >> >>,
      << "ᾠ", << "U+1F68", "Ι" >> >>, << "ᾡ", << "U+1F69", "Ι" >> >>,
      << "ᾢ", << "U+1F6A", "Ι" >> >>, << "ᾣ", << "U+1F6B", "Ι" >> >>,
      << "ᾤ", << "U+1F6C", "Ι" >> >>, << "ᾥ", << "U+1F6D", "Ι" >> >>,
      << "ᾦ", << "U+1F6E", "Ι" >> >>, << "ᾧ", << "U+1F6F", "Ι" >> >>,
      << "ᾨ", << "U+1F68", "Ι" >> >>, << "ᾩ", << "U+1F69", "Ι" >> >>,
      << "ᾪ", << "U+1F6A", "Ι" >> >>, << "ᾫ", << "U+1F6B", "Ι" >> >>,
      << "ᾬ", << "U+1F6C", "Ι" >> >>, << "ᾭ", << "U+1F6D", "Ι" >> >>,
      << "ᾮ", << "U+1F6E", "Ι" >> >>, << "ᾯ", << "U+1F6F", "Ι" >> >>,
      << "ᾲ", << "Ὰ", "Ι" >> >>, << "ᾳ", << "Α", "Ι" >> >>,
      << "ᾴ", << "Ά", "Ι" >> >>, << "ᾶ", << "Α", "U+0342" >> >>,
      << "ᾷ", << "Α", "U+0342", "Ι" >> >>, << "ᾼ", << "Α", "Ι" >> >>,
      << "ῂ", << "Ὴ", "Ι" >> >>, << "ῃ", << "Η", "Ι" >> >>,
      << "ῄ", << "Ή", "Ι" >> >>, << "ῆ", << "Η", "U+0342" >> >>,
      << "ῇ", << "Η", "U+0342", "Ι" >> >>, << "ῌ", << "Η", "Ι" >> >>,
      << "ῒ", << "Ι", "U+0308", "U+0300" >> >>,
      << "ΐ", << "Ι", "U+0308", "U+0301" >> >>,
      << "ῖ", << "Ι", "U+0342" >> >>,
      << "ῗ", << "Ι", "U+0308", "U+0342" >> >>,
      << "ῢ", << "Υ", "U+0308", "U+0300" >> >>,
      << "ΰ", << "Υ", "U+0308", "U+0301" >> >>,
      << "ῤ", << "Ρ", "U+0313" >> >>, << "ῦ", << "Υ", "U+0342" >> >>,
      << "ῧ", << "Υ", "U+0308", "U+0342" >> >>, << "ῲ", << "Ὼ", "Ι" >> >>,
      << "ῳ", << "Ω", "Ι" >> >>, << "ῴ", << "Ώ", "Ι" >> >>,
      << "ῶ", << "Ω", "U+0342" >> >>, << "ῷ", << "Ω", "U+0342", "Ι" >> >>,
      << "ῼ", << "Ω", "Ι" >> >>, << "U+FB00", << "F", "F" >> >>,
      << "U+FB01", << "F", "I" >> >>, << "U+FB02", << "F", "L" >> >>,
      << "U+FB03", << "F", "F", "I" >> >>,
      << "U+FB04", << "F", "F", "L" >> >>, << "U+FB05", << "S", "T" >> >>,
      << "U+FB06", << "S", "T" >> >>,
      << "U+FB13", << "U+0544", "U+0546" >> >>,
      << "U+FB14", << "U+0544", "U+0535" >> >>,
      << "U+FB15", << "U+0544", "U+053B" >> >>,
      << "U+FB16", << "U+054E", "U+0546" >> >>,
      << "U+FB17", << "U+0544", "U+053D" >> >> }

\* The characters with a lower case of one other character, but for capital
\* sigma, whose lower case depends on its place in the string.
SimpleLowerCase ==
    { << "A", "a" >>, << "B", "b" >>, << "C", "c" >>, << "D", "d" >>,
      << "E", "e" >>, << "F", "f" >>, << "G", "g" >>, << "H", "h" >>,
      << "I", "i" >>, << "J", "j" >>, << "K", "k" >>, << "L", "l" >>,
      << "M", "m" >>, << "N", "n" >>, << "O", "o" >>, << "P", "p" >>,
      << "Q", "q" >>, << "R", "r" >>, << "S", "s" >>, << "T", "t" >>,
      << "U", "u" >>, << "V", "v" >>, << "W", "w" >>, << "X", "x" >>,
      << "Y", "y" >>, << "Z", "z" >>, << "À", "à" >>, << "Á", "á" >>,
      << "Â", "â" >>, << "Ã", "ã" >>, << "Ä", "ä" >>, << "Å", "å" >>,
      << "Æ", "æ" >>, << "Ç", "ç" >>, << "È", "è" >>, << "É", "é" >>,
      << "Ê", "ê" >>, << "Ë", "ë" >>, << "Ì", "ì" >>, << "Í", "í" >>,
      << "Î", "î" >>, << "Ï", "ï" >>, << "Ð", "ð" >>, << "Ñ", "ñ" >>,
      << "Ò", "ò" >>, << "Ó", "ó" >>, << "Ô", "ô" >>, << "Õ", "õ" >>,
      << "Ö", "ö" >>, << "Ø", "ø" >>, << "Ù", "ù" >>, << "Ú", "ú" >>,
      << "Û", "û" >>, << "Ü", "ü" >>, << "Ý", "ý" >>, << "Þ", "þ" >>,
      << "U+0100", "U+0101" >>, << "U+0102", "U+0103" >>,
      << "U+0104", "U+0105" >>, << "U+0106", "U+0107" >>,
      << "U+0108", "U+0109" >>, << "U+010A", "U+010B" >>,
      << "U+010C", "U+010D" >>, << "U+010E", "U+010F" >>,
      << "U+0110", "U+0111" >>, << "U+0112", "U+0113" >>,
      << "U+0114", "U+0115" >>, << "U+0116", "U+0117" >>,
      << "U+0118", "U+0119" >>, << "U+011A", "U+011B" >>,
      << "U+011C", "U+011D" >>, << "U+011E", "U+011F" >>,
      << "U+0120", "U+0121" >>, << "U+0122", "U+0123" >>,
      << "U+0124", "U+0125" >>, << "U+0126", "U+0127" >>,
      << "U+0128", "U+0129" >>, << "U+012A", "U+012B" >>,
      << "U+012C", "U+012D" >>, << "U+012E", "U+012F" >>,
      << "U+0132", "U+0133" >>, << "U+0134", "U+0135" >>,
      << "U+0136", "U+0137" >>, << "U+0139", "U+013A" >>,
      << "U+013B", "U+013C" >>, << "U+013D", "U+013E" >>,
      << "U+013F", "U+0140" >>, << "U+0141", "U+0142" >>,
      << "U+0143", "U+0144" >>, << "U+0145", "U+0146" >>,
      << "U+0147", "U+0148" >>, << "U+014A", "U+014B" >>,
      << "U+014C", "U+014D" >>, << "U+014E", "U+014F" >>,
      << "U+0150", "U+0151" >>, << "U+0152", "U+0153" >>,
      << "U+0154", "U+0155" >>, << "U+0156", "U+0157" >>,
      << "U+0158", "U+0159" >>, << "U+015A", "U+015B" >>,
      << "U+015C", "U+015D" >>, << "U+015E", "U+015F" >>,
      << "U+0160", "U+0161" >>, << "U+0162", "U+0163" >>,
      << "U+0164", "U+0165" >>, << "U+0166", "U+0167" >>,
      << "U+0168", "U+0169" >>, << "U+016A", "U+016B" >>,
      << "U+016C", "U+016D" >>, << "U+016E", "U+016F" >>,
      << "U+0170", "U+0171" >>, << "U+0172", "U+0173" >>,
      << "U+0174", "U+0175" >>, << "U+0176", "U+0177" >>, << "U+0178", "ÿ" >>,
      << "U+0179", "U+017A" >>, << "U+017B", "U+017C" >>,
      << "U+017D", "U+017E" >>, << "Ɓ", "U+0253" >>, << "Ƃ", "ƃ" >>,
      << "Ƅ", "ƅ" >>, << "Ɔ", "U+0254" >>, << "Ƈ", "ƈ" >>,
      << "Ɖ", "U+0256" >>, << "Ɗ", "U+0257" >>, << "Ƌ", "ƌ" >>,
      << "Ǝ", "ǝ" >>, << "Ə", "U+0259" >>, << "Ɛ", "U+025B" >>,
      << "Ƒ", "ƒ" >>, << "Ɠ", "U+0260" >>, << "Ɣ", "U+0263" >>,
      << "Ɩ", "U+0269" >>, << "Ɨ", "U+0268" >>, << "Ƙ", "ƙ" >>,
      << "Ɯ", "U+026F" >>, << "Ɲ", "U+0272" >>, << "Ɵ", "U+0275" >>,
      << "Ơ", "ơ" >>, << "Ƣ", "ƣ" >>, << "Ƥ", "ƥ" >>, << "Ʀ", "ʀ" >>,
      << "Ƨ", "ƨ" >>, << "Ʃ", "ʃ" >>, << "Ƭ", "ƭ" >>, << "Ʈ", "ʈ" >>,
      << "Ư", "ư" >>, << "Ʊ", "ʊ" >>, << "Ʋ", "ʋ" >>, << "Ƴ", "ƴ" >>,
      << "Ƶ", "ƶ" >>, << "Ʒ", "ʒ" >>, << "Ƹ", "ƹ" >>, << "Ƽ", "ƽ" >>,
      << "Ǆ", "ǆ" >>, << "ǅ", "ǆ" >>, << "Ǉ", "ǉ" >>, << "ǈ", "ǉ" >>,
      << "Ǌ", "ǌ" >>, << "ǋ", "ǌ" >>, << "Ǎ", "ǎ" >>, << "Ǐ", "ǐ" >>,
      << "Ǒ", "ǒ" >>, << "Ǔ", "ǔ" >>, << "Ǖ", "ǖ" >>, << "Ǘ", "ǘ" >>,
      << "Ǚ", "ǚ" >>, << "Ǜ", "ǜ" >>, << "Ǟ", "ǟ" >>, << "Ǡ", "ǡ" >>,
      << "Ǣ", "ǣ" >>, << "Ǥ", "ǥ" >>, << "Ǧ", "ǧ" >>, << "Ǩ", "ǩ" >>,
      << "Ǫ", "ǫ" >>, << "Ǭ", "ǭ" >>, << "Ǯ", "ǯ" >>, << "Ǳ", "ǳ" >>,
      << "ǲ", "ǳ" >>, << "Ǵ", "ǵ" >>, << "Ƕ", "ƕ" >>, << "Ƿ", "ƿ" >>,
      << "Ǹ", "ǹ" >>, << "Ǻ", "ǻ" >>, << "Ǽ", "ǽ" >>, << "Ǿ", "ǿ" >>,
      << "U+0200", "U+0201" >>, << "U+0202", "U+0203" >>,
      << "U+0204", "U+0205" >>, << "U+0206", "U+0207" >>,
      << "U+0208", "U+0209" >>, << "U+020A", "U+020B" >>,
      << "U+020C", "U+020D" >>, << "U+020E", "U+020F" >>,
      << "U+0210", "U+0211" >>, << "U+0212", "U+0213" >>,
      << "U+0214", "U+0215" >>, << "U+0216", "U+0217" >>,
      << "U+0218", "U+0219" >>, << "U+021A", "U+021B" >>,
      << "U+021C", "U+021D" >>, << "U+021E", "U+021F" >>, << "U+0220", "ƞ" >>,
      << "U+0222", "U+0223" >>, << "U+0224", "U+0225" >>,
      << "U+0226", "U+0227" >>, << "U+0228", "U+0229" >>,
      << "U+022A", "U+022B" >>, << "U+022C", "U+022D" >>,
      << "U+022E", "U+022F" >>, << "U+0230", "U+0231" >>,
      << "U+0232", "U+0233" >>, << "U+023A", "U+2C65" >>,
      << "U+023B", "U+023C" >>, << "U+023D", "ƚ" >>, << "U+023E", "U+2C66" >>,
      << "U+0241", "U+0242" >>, << "U+0243", "ƀ" >>, << "U+0244", "ʉ" >>,
      << "U+0245", "ʌ" >>, << "U+0246", "U+0247" >>, << "U+0248", "U+0249" >>,
      << "U+024A", "U+024B" >>, << "U+024C", "U+024D" >>,
      << "U+024E", "U+024F" >>, << "U+0370", "U+0371" >>,
      << "U+0372", "U+0373" >>, << "U+0376", "U+0377" >>, << "U+037F", "ϳ" >>,
      << "Ά", "ά" >>, << "Έ", "έ" >>, << "Ή", "ή" >>, << "Ί", "ί" >>,
      << "Ό", "ό" >>, << "Ύ", "ύ" >>, << "Ώ", "ώ" >>, << "Α", "α" >>,
      << "Β", "β" >>, << "Γ", "γ" >>, << "Δ", "δ" >>, << "Ε", "ε" >>,
      << "Ζ", "ζ" >>, << "Η", "η" >>, << "Θ", "θ" >>, << "Ι", "ι" >>,
      << "Κ", "κ" >>, << "Λ", "λ" >>, << "Μ", "μ" >>, << "Ν", "ν" >>,
      << "Ξ", "ξ" >>, << "Ο", "ο" >>, << "Π", "π" >>, << "Ρ", "ρ" >>,
      << "Τ", "τ" >>, << "Υ", "υ" >>, << "Φ", "φ" >>, << "Χ", "χ" >>,
      << "Ψ", "ψ" >>, << "Ω", "ω" >>, << "Ϊ", "ϊ" >>, << "Ϋ", "ϋ" >>,
      << "Ϗ", "ϗ" >>, << "Ϙ", "ϙ" >>, << "Ϛ", "ϛ" >>, << "Ϝ", "ϝ" >>,
      << "Ϟ", "ϟ" >>, << "Ϡ", "ϡ" >>, << "Ϣ", "ϣ" >>, << "Ϥ", "ϥ" >>,
      << "Ϧ", "ϧ" >>, << "Ϩ", "ϩ" >>, << "Ϫ", "ϫ" >>, << "Ϭ", "ϭ" >>,
      << "Ϯ", "ϯ" >>, << "ϴ", "θ" >>, << "Ϸ", "ϸ" >>, << "Ϲ", "ϲ" >>,
      << "Ϻ", "ϻ" >>, << "Ͻ", "U+037B" >>, << "Ͼ", "U+037C" >>,
      << "Ͽ", "U+037D" >>, << "U+0400", "U+0450" >>, << "U+0401", "U+0451" >>,
      << "U+0402", "U+0452" >>, << "U+0403", "U+0453" >>,
      << "U+0404", "U+0454" >>, << "U+0405", "U+0455" >>,
      << "U+0406", "U+0456" >>, << "U+0407", "U+0457" >>,
      << "U+0408", "U+0458" >>, << "U+0409", "U+0459" >>,
      << "U+040A", "U+045A" >>, << "U+040B", "U+045B" >>,
      << "U+040C", "U+045C" >>, << "U+040D", "U+045D" >>,
      << "U+040E", "U+045E" >>, << "U+040F", "U+045F" >>,
      << "U+0410", "U+0430" >>, << "U+0411", "U+0431" >>,
      << "U+0412", "U+0432" >>, << "U+0413", "U+0433" >>,
      << "U+0414", "U+0434" >>, << "U+0415", "U+0435" >>,
      << "U+0416", "U+0436" >>, << "U+0417", "U+0437" >>,
      << "U+0418", "U+0438" >>, << "U+0419", "U+0439" >>,
      << "U+041A", "U+043A" >>, << "U+041B", "U+043B" >>,
      << "U+041C", "U+043C" >>, << "U+041D", "U+043D" >>,
      << "U+041E", "U+043E" >>, << "U+041F", "U+043F" >>,
      << "U+0420", "U+0440" >>, << "U+0421", "U+0441" >>,
      << "U+0422", "U+0442" >>, << "U+0423", "U+0443" >>,
      << "U+0424", "U+0444" >>, << "U+0425", "U+0445" >>,
      << "U+0426", "U+0446" >>, << "U+0427", "U+0447" >>,
      << "U+0428", "U+0448" >>, << "U+0429", "U+0449" >>,
      << "U+042A", "U+044A" >>, << "U+042B", "U+044B" >>,
      << "U+042C", "U+044C" >>, << "U+042D", "U+044D" >>,
      << "U+042E", "U+044E" >>, << "U+042F", "U+044F" >>,
      << "U+0460", "U+0461" >>, << "U+0462", "U+0463" >>,
      << "U+0464", "U+0465" >>, << "U+0466", "U+0467" >>,
      << "U+0468", "U+0469" >>, << "U+046A", "U+046B" >>,
      << "U+046C", "U+046D" >>, << "U+046E", "U+046F" >>,
      << "U+0470", "U+0471" >>, << "U+0472", "U+0473" >>,
      << "U+0474", "U+0475" >>, << "U+0476", "U+0477" >>,
      << "U+0478", "U+0479" >>, << "U+047A", "U+047B" >>,
      << "U+047C", "U+047D" >>, << "U+047E", "U+047F" >>, << "Ҁ", "ҁ" >>,
      << "Ҋ", "ҋ" >>, << "Ҍ", "ҍ" >>, << "Ҏ", "ҏ" >>, << "Ґ", "ґ" >>,
      << "Ғ", "ғ" >>, << "Ҕ", "ҕ" >>, << "Җ", "җ" >>, << "Ҙ", "ҙ" >>,
      << "Қ", "қ" >>, << "Ҝ", "ҝ" >>, << "Ҟ", "ҟ" >>, << "Ҡ", "ҡ" >>,
      << "Ң", "ң" >>, << "Ҥ", "ҥ" >>, << "Ҧ", "ҧ" >>, << "Ҩ", "ҩ" >>,
      << "Ҫ", "ҫ" >>, << "Ҭ", "ҭ" >>, << "Ү", "ү" >>, << "Ұ", "ұ" >>,
      << "Ҳ", "ҳ" >>, << "Ҵ", "ҵ" >>, << "Ҷ", "ҷ" >>, << "Ҹ", "ҹ" >>,
      << "Һ", "һ" >>, << "Ҽ", "ҽ" >>, << "Ҿ", "ҿ" >>, << "Ӏ", "ӏ" >>,
      << "Ӂ", "ӂ" >>, << "Ӄ", "ӄ" >>, << "Ӆ", "ӆ" >>, << "Ӈ", "ӈ" >>,
      << "Ӊ", "ӊ" >>, << "Ӌ", "ӌ" >>, << "Ӎ", "ӎ" >>, << "Ӑ", "ӑ" >>,
      << "Ӓ", "ӓ" >>, << "Ӕ", "ӕ" >>, << "Ӗ", "ӗ" >>, << "Ә", "ә" >>,
      << "Ӛ", "ӛ" >>, << "Ӝ", "ӝ" >>, << "Ӟ", "ӟ" >>, << "Ӡ", "ӡ" >>,
      << "Ӣ", "ӣ" >>, << "Ӥ", "ӥ" >>, << "Ӧ", "ӧ" >>, << "Ө", "ө" >>,
      << "Ӫ", "ӫ" >>, << "Ӭ", "ӭ" >>, << "Ӯ", "ӯ" >>, << "Ӱ", "ӱ" >>,
      << "Ӳ", "ӳ" >>, << "Ӵ", "ӵ" >>, << "Ӷ", "ӷ" >>, << "Ӹ", "ӹ" >>,
      << "Ӻ", "ӻ" >>, << "Ӽ", "ӽ" >>, << "Ӿ", "ӿ" >>,
      << "U+0500", "U+0501" >>, << "U+0502", "U+0503" >>,
      << "U+0504", "U+0505" >>, << "U+0506", "U+0507" >>,
      << "U+0508", "U+0509" >>, << "U+050A", "U+050B" >>,
      << "U+050C", "U+050D" >>, << "U+050E", "U+050F" >>,
      << "U+0510", "U+0511" >>, << "U+0512", "U+0513" >>,
      << "U+0514", "U+0515" >>, << "U+0516", "U+0517" >>,
      << "U+0518", "U+0519" >>, << "U+051A", "U+051B" >>,
      << "U+051C", "U+051D" >>, << "U+051E", "U+051F" >>,
      << "U+0520", "U+0521" >>, << "U+0522", "U+0523" >>,
      << "U+0524", "U+0525" >>, << "U+0526", "U+0527" >>,
      << "U+0528", "U+0529" >>, << "U+052A", "U+052B" >>,
      << "U+052C", "U+052D" >>, << "U+052E", "U+052F" >>,
      << "U+0531", "U+0561" >>, << "U+0532", "U+0562" >>,
      << "U+0533", "U+0563" >>, << "U+0534", "U+0564" >>,
      << "U+0535", "U+0565" >>, << "U+0536", "U+0566" >>,
      << "U+0537", "U+0567" >>, << "U+0538", "U+0568" >>,
      << "U+0539", "U+0569" >>, << "U+053A", "U+056A" >>,
      << "U+053B", "U+056B" >>, << "U+053C", "U+056C" >>,
      << "U+053D", "U+056D" >>, << "U+053E", "U+056E" >>,
      << "U+053F", "U+056F" >>, << "U+0540", "U+0570" >>,
      << "U+0541", "U+0571" >>, << "U+0542", "U+0572" >>,
      << "U+0543", "U+0573" >>, << "U+0544", "U+0574" >>,
      << "U+0545", "U+0575" >>, << "U+0546", "U+0576" >>,
      << "U+0547", "U+0577" >>, << "U+0548", "U+0578" >>,
      << "U+0549", "U+0579" >>, << "U+054A", "U+057A" >>,
      << "U+054B", "U+057B" >>, << "U+054C", "U+057C" >>,
      << "U+054D", "U+057D" >>, << "U+054E", "U+057E" >>,
      << "U+054F", "U+057F" >>, << "U+0550", "ր" >>, << "U+0551", "ց" >>,
      << "U+0552", "ւ" >>, << "U+0553", "փ" >>, << "U+0554", "ք" >>,
      << "U+0555", "օ" >>, << "U+0556", "ֆ" >>, << "Ⴀ", "U+2D00" >>,
      << "Ⴁ", "U+2D01" >>, << "Ⴂ", "U+2D02" >>, << "Ⴃ", "U+2D03" >>,
      << "Ⴄ", "U+2D04" >>, << "Ⴅ", "U+2D05" >>, << "Ⴆ", "U+2D06" >>,
      << "Ⴇ", "U+2D07" >>, << "Ⴈ", "U+2D08" >>, << "Ⴉ", "U+2D09" >>,
      << "Ⴊ", "U+2D0A" >>, << "Ⴋ", "U+2D0B" >>, << "Ⴌ", "U+2D0C" >>,
      << "Ⴍ", "U+2D0D" >>, << "Ⴎ", "U+2D0E" >>, << "Ⴏ", "U+2D0F" >>,
      << "Ⴐ", "U+2D10" >>, << "Ⴑ", "U+2D11" >>, << "Ⴒ", "U+2D12" >>,
      << "Ⴓ", "U+2D13" >>, << "Ⴔ", "U+2D14" >>, << "Ⴕ", "U+2D15" >>,
      << "Ⴖ", "U+2D16" >>, << "Ⴗ", "U+2D17" >>, << "Ⴘ", "U+2D18" >>,
      << "Ⴙ", "U+2D19" >>, << "Ⴚ", "U+2D1A" >>, << "Ⴛ", "U+2D1B" >>,
      << "Ⴜ", "U+2D1C" >>, << "Ⴝ", "U+2D1D" >>, << "Ⴞ", "U+2D1E" >>,
      << "Ⴟ", "U+2D1F" >>, << "Ⴠ", "U+2D20" >>, << "Ⴡ", "U+2D21" >>,
      << "Ⴢ", "U+2D22" >>, << "Ⴣ", "U+2D23" >>, << "Ⴤ", "U+2D24" >>,
      << "Ⴥ", "U+2D25" >>, << "Ⴧ", "U+2D27" >>, << "Ⴭ", "U+2D2D" >>,
      << "Ꭰ", "U+AB70" >>, << "Ꭱ", "U+AB71" >>, << "Ꭲ", "U+AB72" >>,
      << "Ꭳ", "U+AB73" >>, << "Ꭴ", "U+AB74" >>, << "Ꭵ", "U+AB75" >>,
      << "Ꭶ", "U+AB76" >>, << "Ꭷ", "U+AB77" >>, << "Ꭸ", "U+AB78" >>,
      << "Ꭹ", "U+AB79" >>, << "Ꭺ", "U+AB7A" >>, << "Ꭻ", "U+AB7B" >>,
      << "Ꭼ", "U+AB7C" >>, << "Ꭽ", "U+AB7D" >>, << "Ꭾ", "U+AB7E" >>,
      << "Ꭿ", "U+AB7F" >>, << "Ꮀ", "ꮀ" >>, << "Ꮁ", "ꮁ" >>, << "Ꮂ", "ꮂ" >>,
      << "Ꮃ", "ꮃ" >>, << "Ꮄ", "ꮄ" >>, << "Ꮅ", "ꮅ" >>, << "Ꮆ", "ꮆ" >>,
      << "Ꮇ", "ꮇ" >>, << "Ꮈ", "ꮈ" >>, << "Ꮉ", "ꮉ" >>, << "Ꮊ", "ꮊ" >>,
      << "Ꮋ", "ꮋ" >>, << "Ꮌ", "ꮌ" >>, << "Ꮍ", "ꮍ" >>, << "Ꮎ", "ꮎ" >>,
      << "Ꮏ", "ꮏ" >>, << "Ꮐ", "ꮐ" >>, << "Ꮑ", "ꮑ" >>, << "Ꮒ", "ꮒ" >>,
      << "Ꮓ", "ꮓ" >>, << "Ꮔ", "ꮔ" >>, << "Ꮕ", "ꮕ" >>, << "Ꮖ", "ꮖ" >>,
      << "Ꮗ", "ꮗ" >>, << "Ꮘ", "ꮘ" >>, << "Ꮙ", "ꮙ" >>, << "Ꮚ", "ꮚ" >>,
      << "Ꮛ", "ꮛ" >>, << "Ꮜ", "ꮜ" >>, << "Ꮝ", "ꮝ" >>, << "Ꮞ", "ꮞ" >>,
      << "Ꮟ", "ꮟ" >>, << "Ꮠ", "ꮠ" >>, << "Ꮡ", "ꮡ" >>, << "Ꮢ", "ꮢ" >>,
      << "Ꮣ", "ꮣ" >>, << "Ꮤ", "ꮤ" >>, << "Ꮥ", "ꮥ" >>, << "Ꮦ", "ꮦ" >>,
      << "Ꮧ", "ꮧ" >>, << "Ꮨ", "ꮨ" >>, << "Ꮩ", "ꮩ" >>, << "Ꮪ", "ꮪ" >>,
      << "Ꮫ", "ꮫ" >>, << "Ꮬ", "ꮬ" >>, << "Ꮭ", "ꮭ" >>, << "Ꮮ", "ꮮ" >>,
      << "Ꮯ", "ꮯ" >>, << "Ꮰ", "ꮰ" >>, << "Ꮱ", "ꮱ" >>, << "Ꮲ", "ꮲ" >>,
      << "Ꮳ", "ꮳ" >>, << "Ꮴ", "ꮴ" >>, << "Ꮵ", "ꮵ" >>, << "Ꮶ", "ꮶ" >>,
      << "Ꮷ", "ꮷ" >>, << "Ꮸ", "ꮸ" >>, << "Ꮹ", "ꮹ" >>, << "Ꮺ", "ꮺ" >>,
      << "Ꮻ", "ꮻ" >>, << "Ꮼ", "ꮼ" >>, << "Ꮽ", "ꮽ" >>, << "Ꮾ", "ꮾ" >>,
      << "Ꮿ", "ꮿ" >>, << "Ᏸ", "ᏸ" >>, << "Ᏹ", "ᏹ" >>, << "Ᏺ", "ᏺ" >>,
      << "Ᏻ", "ᏻ" >>, << "Ᏼ", "ᏼ" >>, << "Ᏽ", "ᏽ" >>, << "Ᲊ", "ᲊ" >>,
      << "Ა", "ა" >>, << "Ბ", "ბ" >>, << "Გ", "გ" >>, << "Დ", "დ" >>,
      << "Ე", "ე" >>, << "Ვ", "ვ" >>, << "Ზ", "ზ" >>, << "Თ", "თ" >>,
      << "Ი", "ი" >>, << "Კ", "კ" >>, << "Ლ", "ლ" >>, << "Მ", "მ" >>,
      << "Ნ", "ნ" >>, << "Ო", "ო" >>, << "Პ", "პ" >>, << "Ჟ", "ჟ" >>,
      << "Რ", "რ" >>, << "Ს", "ს" >>, << "Ტ", "ტ" >>, << "Უ", "უ" >>,
      << "Ფ", "ფ" >>, << "Ქ", "ქ" >>, << "Ღ", "ღ" >>, << "Ყ", "ყ" >>,
      << "Შ", "შ" >>, << "Ჩ", "ჩ" >>, << "Ც", "ც" >>, << "Ძ", "ძ" >>,
      << "Წ", "წ" >>, << "Ჭ", "ჭ" >>, << "Ხ", "ხ" >>, << "Ჯ", "ჯ" >>,
      << "Ჰ", "ჰ" >>, << "Ჱ", "ჱ" >>, << "Ჲ", "ჲ" >>, << "Ჳ", "ჳ" >>,
      << "Ჴ", "ჴ" >>, << "Ჵ", "ჵ" >>, << "Ჶ", "ჶ" >>, << "Ჷ", "ჷ" >>,
      << "Ჸ", "ჸ" >>, << "Ჹ", "ჹ" >>, << "Ჺ", "ჺ" >>, << "Ჽ", "ჽ" >>,
      << "Ჾ", "ჾ" >>, << "Ჿ", "ჿ" >>, << "U+1E00", "U+1E01" >>,
      << "U+1E02", "U+1E03" >>, << "U+1E04", "U+1E05" >>,
      << "U+1E06", "U+1E07" >>, << "U+1E08", "U+1E09" >>,
      << "U+1E0A", "U+1E0B" >>, << "U+1E0C", "U+1E0D" >>,
      << "U+1E0E", "U+1E0F" >>, << "U+1E10", "U+1E11" >>,
      << "U+1E12", "U+1E13" >>, << "U+1E14", "U+1E15" >>,
      << "U+1E16", "U+1E17" >>, << "U+1E18", "U+1E19" >>,
      << "U+1E1A", "U+1E1B" >>, << "U+1E1C", "U+1E1D" >>,
      << "U+1E1E", "U+1E1F" >>, << "U+1E20", "U+1E21" >>,
      << "U+1E22", "U+1E23" >>, << "U+1E24", "U+1E25" >>,
      << "U+1E26", "U+1E27" >>, << "U+1E28", "U+1E29" >>,
      << "U+1E2A", "U+1E2B" >>, << "U+1E2C", "U+1E2D" >>,
      << "U+1E2E", "U+1E2F" >>, << "U+1E30", "U+1E31" >>,
      << "U+1E32", "U+1E33" >>, << "U+1E34", "U+1E35" >>,
      << "U+1E36", "U+1E37" >>, << "U+1E38", "U+1E39" >>,
      << "U+1E3A", "U+1E3B" >>, << "U+1E3C", "U+1E3D" >>,
      << "U+1E3E", "U+1E3F" >>, << "U+1E40", "U+1E41" >>,
      << "U+1E42", "U+1E43" >>, << "U+1E44", "U+1E45" >>,
      << "U+1E46", "U+1E47" >>, << "U+1E48", "U+1E49" >>,
      << "U+1E4A", "U+1E4B" >>, << "U+1E4C", "U+1E4D" >>,
      << "U+1E4E", "U+1E4F" >>, << "U+1E50", "U+1E51" >>,
      << "U+1E52", "U+1E53" >>, << "U+1E54", "U+1E55" >>,
      << "U+1E56", "U+1E57" >>, << "U+1E58", "U+1E59" >>,
      << "U+1E5A", "U+1E5B" >>, << "U+1E5C", "U+1E5D" >>,
      << "U+1E5E", "U+1E5F" >>, << "U+1E60", "U+1E61" >>,
      << "U+1E62", "U+1E63" >>, << "U+1E64", "U+1E65" >>,
      << "U+1E66", "U+1E67" >>, << "U+1E68", "U+1E69" >>,
      << "U+1E6A", "U+1E6B" >>, << "U+1E6C", "U+1E6D" >>,
      << "U+1E6E", "U+1E6F" >>, << "U+1E70", "U+1E71" >>,
      << "U+1E72", "U+1E73" >>, << "U+1E74", "U+1E75" >>,
      << "U+1E76", "U+1E77" >>, << "U+1E78", "U+1E79" >>,
      << "U+1E7A", "U+1E7B" >>, << "U+1E7C", "U+1E7D" >>,
      << "U+1E7E", "U+1E7F" >>, << "Ẁ", "ẁ" >>, << "Ẃ", "ẃ" >>,
      << "Ẅ", "ẅ" >>, << "Ẇ", "ẇ" >>, << "Ẉ", "ẉ" >>, << "Ẋ", "ẋ" >>,
      << "Ẍ", "ẍ" >>, << "Ẏ", "ẏ" >>, << "Ẑ", "ẑ" >>, << "Ẓ", "ẓ" >>,
      << "Ẕ", "ẕ" >>, << "ẞ", "ß" >>, << "Ạ", "ạ" >>, << "Ả", "ả" >>,
      << "Ấ", "ấ" >>, << "Ầ", "ầ" >>, << "Ẩ", "ẩ" >>, << "Ẫ", "ẫ" >>,
      << "Ậ", "ậ" >>, << "Ắ", "ắ" >>, << "Ằ", "ằ" >>, << "Ẳ", "ẳ" >>,
      << "Ẵ", "ẵ" >>, << "Ặ", "ặ" >>, << "Ẹ", "ẹ" >>, << "Ẻ", "ẻ" >>,
      << "Ẽ", "ẽ" >>, << "Ế", "ế" >>, << "Ề", "ề" >>, << "Ể", "ể" >>,
      << "Ễ", "ễ" >>, << "Ệ", "ệ" >>, << "Ỉ", "ỉ" >>, << "Ị", "ị" >>,
      << "Ọ", "ọ" >>, << "Ỏ", "ỏ" >>, << "Ố", "ố" >>, << "Ồ", "ồ" >>,
      << "Ổ", "ổ" >>, << "Ỗ", "ỗ" >>, << "Ộ", "ộ" >>, << "Ớ", "ớ" >>,
      << "Ờ", "ờ" >>, << "Ở", "ở" >>, << "Ỡ", "ỡ" >>, << "Ợ", "ợ" >>,
      << "Ụ", "ụ" >>, << "Ủ", "ủ" >>, << "Ứ", "ứ" >>, << "Ừ", "ừ" >>,
      << "Ử", "ử" >>, << "Ữ", "ữ" >>, << "Ự", "ự" >>, << "Ỳ", "ỳ" >>,
      << "Ỵ", "ỵ" >>, << "Ỷ", "ỷ" >>, << "Ỹ", "ỹ" >>, << "Ỻ", "ỻ" >>,
      << "Ỽ", "ỽ" >>, << "Ỿ", "ỿ" >>, << "U+1F08", "U+1F00" >>,
      << "U+1F09", "U+1F01" >>, << "U+1F0A", "U+1F02" >>,
      << "U+1F0B", "U+1F03" >>, << "U+1F0C", "U+1F04" >>,
      << "U+1F0D", "U+1F05" >>, << "U+1F0E", "U+1F06" >>,
      << "U+1F0F", "U+1F07" >>, << "U+1F18", "U+1F10" >>,
      << "U+1F19", "U+1F11" >>, << "U+1F1A", "U+1F12" >>,
      << "U+1F1B", "U+1F13" >>, << "U+1F1C", "U+1F14" >>,
      << "U+1F1D", "U+1F15" >>, << "U+1F28", "U+1F20" >>,
      << "U+1F29", "U+1F21" >>, << "U+1F2A", "U+1F22" >>,
      << "U+1F2B", "U+1F23" >>, << "U+1F2C", "U+1F24" >>,
      << "U+1F2D", "U+1F25" >>, << "U+1F2E", "U+1F26" >>,
      << "U+1F2F", "U+1F27" >>, << "U+1F38", "U+1F30" >>,
      << "U+1F39", "U+1F31" >>, << "U+1F3A", "U+1F32" >>,
      << "U+1F3B", "U+1F33" >>, << "U+1F3C", "U+1F34" >>,
      << "U+1F3D", "U+1F35" >>, << "U+1F3E", "U+1F36" >>,
      << "U+1F3F", "U+1F37" >>, << "U+1F48", "U+1F40" >>,
      << "U+1F49", "U+1F41" >>, << "U+1F4A", "U+1F42" >>,
      << "U+1F4B", "U+1F43" >>, << "U+1F4C", "U+1F44" >>,
      << "U+1F4D", "U+1F45" >>, << "U+1F59", "U+1F51" >>,
      << "U+1F5B", "U+1F53" >>, << "U+1F5D", "U+1F55" >>,
      << "U+1F5F", "U+1F57" >>, << "U+1F68", "U+1F60" >>,
      << "U+1F69", "U+1F61" >>, << "U+1F6A", "U+1F62" >>,
      << "U+1F6B", "U+1F63" >>, << "U+1F6C", "U+1F64" >>,
      << "U+1F6D", "U+1F65" >>, << "U+1F6E", "U+1F66" >>,
      << "U+1F6F", "U+1F67" >>, << "ᾈ", "ᾀ" >>, << "ᾉ", "ᾁ" >>,
      << "ᾊ", "ᾂ" >>, << "ᾋ", "ᾃ" >>, << "ᾌ", "ᾄ" >>, << "ᾍ", "ᾅ" >>,
      << "ᾎ", "ᾆ" >>, << "ᾏ", "ᾇ" >>, << "ᾘ", "ᾐ" >>, << "ᾙ", "ᾑ" >>,
      << "ᾚ", "ᾒ" >>, << "ᾛ", "ᾓ" >>, << "ᾜ", "ᾔ" >>, << "ᾝ", "ᾕ" >>,
      << "ᾞ", "ᾖ" >>, << "ᾟ", "ᾗ" >>, << "ᾨ", "ᾠ" >>, << "ᾩ", "ᾡ" >>,
      << "ᾪ", "ᾢ" >>, << "ᾫ", "ᾣ" >>, << "ᾬ", "ᾤ" >>, << "ᾭ", "ᾥ" >>,
      << "ᾮ", "ᾦ" >>, << "ᾯ", "ᾧ" >>, << "Ᾰ", "ᾰ" >>, << "Ᾱ", "ᾱ" >>,
      << "Ὰ", "U+1F70" >>, << "Ά", "U+1F71" >>, << "ᾼ", "ᾳ" >>,
      << "Ὲ", "U+1F72" >>, << "Έ", "U+1F73" >>, << "Ὴ", "U+1F74" >>,
      << "Ή", "U+1F75" >>, << "ῌ", "ῃ" >>, << "Ῐ", "ῐ" >>, << "Ῑ", "ῑ" >>,
      << "Ὶ", "U+1F76" >>, << "Ί", "U+1F77" >>, << "Ῠ", "ῠ" >>,
      << "Ῡ", "ῡ" >>, << "Ὺ", "U+1F7A" >>, << "Ύ", "U+1F7B" >>,
      << "Ῥ", "ῥ" >>, << "Ὸ", "U+1F78" >>, << "Ό", "U+1F79" >>,
      << "Ὼ", "U+1F7C" >>, << "Ώ", "U+1F7D" >>, << "ῼ", "ῳ" >>,
      << "U+2126", "ω" >>, << "U+212A", "k" >>, << "U+212B", "å" >>,
      << "U+2132", "U+214E" >>, << "U+2160", "U+2170" >>,
      << "U+2161", "U+2171" >>, << "U+2162", "U+2172" >>,
      << "U+2163", "U+2173" >>, << "U+2164", "U+2174" >>,
      << "U+2165", "U+2175" >>, << "U+2166", "U+2176" >>,
      << "U+2167", "U+2177" >>, << "U+2168", "U+2178" >>,
      << "U+2169", "U+2179" >>, << "U+216A", "U+217A" >>,
      << "U+216B", "U+217B" >>, << "U+216C", "U+217C" >>,
      << "U+216D", "U+217D" >>, << "U+216E", "U+217E" >>,
      << "U+216F", "U+217F" >>, << "Ↄ", "ↄ" >>, << "Ⓐ", "ⓐ" >>,
      << "Ⓑ", "ⓑ" >>, << "Ⓒ", "ⓒ" >>, << "Ⓓ", "ⓓ" >>, << "Ⓔ", "ⓔ" >>,
      << "Ⓕ", "ⓕ" >>, << "Ⓖ", "ⓖ" >>, << "Ⓗ", "ⓗ" >>, << "Ⓘ", "ⓘ" >>,
      << "Ⓙ", "ⓙ" >>, << "Ⓚ", "ⓚ" >>, << "Ⓛ", "ⓛ" >>, << "Ⓜ", "ⓜ" >>,
      << "Ⓝ", "ⓝ" >>, << "Ⓞ", "ⓞ" >>, << "Ⓟ", "ⓟ" >>, << "Ⓠ", "ⓠ" >>,
      << "Ⓡ", "ⓡ" >>, << "Ⓢ", "ⓢ" >>, << "Ⓣ", "ⓣ" >>, << "Ⓤ", "ⓤ" >>,
      << "Ⓥ", "ⓥ" >>, << "Ⓦ", "ⓦ" >>, << "Ⓧ", "ⓧ" >>, << "Ⓨ", "ⓨ" >>,
      << "Ⓩ", "ⓩ" >>, << "U+2C00", "U+2C30" >>, << "U+2C01", "U+2C31" >>,
      << "U+2C02", "U+2C32" >>, << "U+2C03", "U+2C33" >>,
      << "U+2C04", "U+2C34" >>, << "U+2C05", "U+2C35" >>,
      << "U+2C06", "U+2C36" >>, << "U+2C07", "U+2C37" >>,
      << "U+2C08", "U+2C38" >>, << "U+2C09", "U+2C39" >>,
      << "U+2C0A", "U+2C3A" >>, << "U+2C0B", "U+2C3B" >>,
      << "U+2C0C", "U+2C3C" >>, << "U+2C0D", "U+2C3D" >>,
      << "U+2C0E", "U+2C3E" >>, << "U+2C0F", "U+2C3F" >>,
      << "U+2C10", "U+2C40" >>, << "U+2C11", "U+2C41" >>,
      << "U+2C12", "U+2C42" >>, << "U+2C13", "U+2C43" >>,
      << "U+2C14", "U+2C44" >>, << "U+2C15", "U+2C45" >>,
      << "U+2C16", "U+2C46" >>, << "U+2C17", "U+2C47" >>,
      << "U+2C18", "U+2C48" >>, << "U+2C19", "U+2C49" >>,
      << "U+2C1A", "U+2C4A" >>, << "U+2C1B", "U+2C4B" >>,
      << "U+2C1C", "U+2C4C" >>, << "U+2C1D", "U+2C4D" >>,
      << "U+2C1E", "U+2C4E" >>, << "U+2C1F", "U+2C4F" >>,
      << "U+2C20", "U+2C50" >>, << "U+2C21", "U+2C51" >>,
      << "U+2C22", "U+2C52" >>, << "U+2C23", "U+2C53" >>,
      << "U+2C24", "U+2C54" >>, << "U+2C25", "U+2C55" >>,
      << "U+2C26", "U+2C56" >>, << "U+2C27", "U+2C57" >>,
      << "U+2C28", "U+2C58" >>, << "U+2C29", "U+2C59" >>,
      << "U+2C2A", "U+2C5A" >>, << "U+2C2B", "U+2C5B" >>,
      << "U+2C2C", "U+2C5C" >>, << "U+2C2D", "U+2C5D" >>,
      << "U+2C2E", "U+2C5E" >>, << "U+2C2F", "U+2C5F" >>,
      << "U+2C60", "U+2C61" >>, << "U+2C62", "U+026B" >>,
      << "U+2C63", "U+1D7D" >>, << "U+2C64", "U+027D" >>,
      << "U+2C67", "U+2C68" >>, << "U+2C69", "U+2C6A" >>,
      << "U+2C6B", "U+2C6C" >>, << "U+2C6D", "U+0251" >>,
      << "U+2C6E", "U+0271" >>, << "U+2C6F", "U+0250" >>,
      << "U+2C70", "U+0252" >>, << "U+2C72", "U+2C73" >>,
      << "U+2C75", "U+2C76" >>, << "U+2C7E", "U+023F" >>,
      << "U+2C7F", "U+0240" >>, << "Ⲁ", "ⲁ" >>, << "Ⲃ", "ⲃ" >>,
      << "Ⲅ", "ⲅ" >>, << "Ⲇ", "ⲇ" >>, << "Ⲉ", "ⲉ" >>, << "Ⲋ", "ⲋ" >>,
      << "Ⲍ", "ⲍ" >>, << "Ⲏ", "ⲏ" >>, << "Ⲑ", "ⲑ" >>, << "Ⲓ", "ⲓ" >>,
      << "Ⲕ", "ⲕ" >>, << "Ⲗ", "ⲗ" >>, << "Ⲙ", "ⲙ" >>, << "Ⲛ", "ⲛ" >>,
      << "Ⲝ", "ⲝ" >>, << "Ⲟ", "ⲟ" >>, << "Ⲡ", "ⲡ" >>, << "Ⲣ", "ⲣ" >>,
      << "Ⲥ", "ⲥ" >>, << "Ⲧ", "ⲧ" >>, << "Ⲩ", "ⲩ" >>, << "Ⲫ", "ⲫ" >>,
      << "Ⲭ", "ⲭ" >>, << "Ⲯ", "ⲯ" >>, << "Ⲱ", "ⲱ" >>, << "Ⲳ", "ⲳ" >>,
      << "Ⲵ", "ⲵ" >>, << "Ⲷ", "ⲷ" >>, << "Ⲹ", "ⲹ" >>, << "Ⲻ", "ⲻ" >>,
      << "Ⲽ", "ⲽ" >>, << "Ⲿ", "ⲿ" >>, << "Ⳁ", "ⳁ" >>, << "Ⳃ", "ⳃ" >>,
      << "Ⳅ", "ⳅ" >>, << "Ⳇ", "ⳇ" >>, << "Ⳉ", "ⳉ" >>, << "Ⳋ", "ⳋ" >>,
      << "Ⳍ", "ⳍ" >>, << "Ⳏ", "ⳏ" >>, << "Ⳑ", "ⳑ" >>, << "Ⳓ", "ⳓ" >>,
      << "Ⳕ", "ⳕ" >>, << "Ⳗ", "ⳗ" >>, << "Ⳙ", "ⳙ" >>, << "Ⳛ", "ⳛ" >>,
      << "Ⳝ", "ⳝ" >>, << "Ⳟ", "ⳟ" >>, << "Ⳡ", "ⳡ" >>, << "Ⳣ", "ⳣ" >>,
      << "Ⳬ", "ⳬ" >>, << "Ⳮ", "ⳮ" >>, << "Ⳳ", "ⳳ" >>,
      << "U+A640", "U+A641" >>, << "U+A642", "U+A643" >>,
      << "U+A644", "U+A645" >>, << "U+A646", "U+A647" >>,
      << "U+A648", "U+A649" >>, << "U+A64A", "U+A64B" >>,
      << "U+A64C", "U+A64D" >>, << "U+A64E", "U+A64F" >>,
      << "U+A650", "U+A651" >>, << "U+A652", "U+A653" >>,
      << "U+A654", "U+A655" >>, << "U+A656", "U+A657" >>,
      << "U+A658", "U+A659" >>, << "U+A65A", "U+A65B" >>,
      << "U+A65C", "U+A65D" >>, << "U+A65E", "U+A65F" >>,
      << "U+A660", "U+A661" >>, << "U+A662", "U+A663" >>,
      << "U+A664", "U+A665" >>, << "U+A666", "U+A667" >>,
      << "U+A668", "U+A669" >>, << "U+A66A", "U+A66B" >>,
      << "U+A66C", "U+A66D" >>, << "Ꚁ", "ꚁ" >>, << "Ꚃ", "ꚃ" >>,
      << "Ꚅ", "ꚅ" >>, << "Ꚇ", "ꚇ" >>, << "Ꚉ", "ꚉ" >>, << "Ꚋ", "ꚋ" >>,
      << "Ꚍ", "ꚍ" >>, << "Ꚏ", "ꚏ" >>, << "Ꚑ", "ꚑ" >>, << "Ꚓ", "ꚓ" >>,
      << "Ꚕ", "ꚕ" >>, << "Ꚗ", "ꚗ" >>, << "Ꚙ", "ꚙ" >>, << "Ꚛ", "ꚛ" >>,
      << "U+A722", "U+A723" >>, << "U+A724", "U+A725" >>,
      << "U+A726", "U+A727" >>, << "U+A728", "U+A729" >>,
      << "U+A72A", "U+A72B" >>, << "U+A72C", "U+A72D" >>,
      << "U+A72E", "U+A72F" >>, << "U+A732", "U+A733" >>,
      << "U+A734", "U+A735" >>, << "U+A736", "U+A737" >>,
      << "U+A738", "U+A739" >>, << "U+A73A", "U+A73B" >>,
      << "U+A73C", "U+A73D" >>, << "U+A73E", "U+A73F" >>,
      << "U+A740", "U+A741" >>, << "U+A742", "U+A743" >>,
      << "U+A744", "U+A745" >>, << "U+A746", "U+A747" >>,
      << "U+A748", "U+A749" >>, << "U+A74A", "U+A74B" >>,
      << "U+A74C", "U+A74D" >>, << "U+A74E", "U+A74F" >>,
      << "U+A750", "U+A751" >>, << "U+A752", "U+A753" >>,
      << "U+A754", "U+A755" >>, << "U+A756", "U+A757" >>,
      << "U+A758", "U+A759" >>, << "U+A75A", "U+A75B" >>,
      << "U+A75C", "U+A75D" >>, << "U+A75E", "U+A75F" >>,
      << "U+A760", "U+A761" >>, << "U+A762", "U+A763" >>,
      << "U+A764", "U+A765" >>, << "U+A766", "U+A767" >>,
      << "U+A768", "U+A769" >>, << "U+A76A", "U+A76B" >>,
      << "U+A76C", "U+A76D" >>, << "U+A76E", "U+A76F" >>,
      << "U+A779", "U+A77A" >>, << "U+A77B", "U+A77C" >>,
      << "U+A77D", "U+1D79" >>, << "U+A77E", "U+A77F" >>, << "Ꞁ", "ꞁ" >>,
      << "Ꞃ", "ꞃ" >>, << "Ꞅ", "ꞅ" >>, << "Ꞇ", "ꞇ" >>, << "Ꞌ", "ꞌ" >>,
      << "Ɥ", "U+0265" >>, << "Ꞑ", "ꞑ" >>, << "Ꞓ", "ꞓ" >>, << "Ꞗ", "ꞗ" >>,
      << "Ꞙ", "ꞙ" >>, << "Ꞛ", "ꞛ" >>, << "Ꞝ", "ꞝ" >>, << "Ꞟ", "ꞟ" >>,
      << "Ꞡ", "ꞡ" >>, << "Ꞣ", "ꞣ" >>, << "Ꞥ", "ꞥ" >>, << "Ꞧ", "ꞧ" >>,
      << "Ꞩ", "ꞩ" >>, << "Ɦ", "U+0266" >>, << "Ɜ", "U+025C" >>,
      << "Ɡ", "U+0261" >>, << "Ɬ", "U+026C" >>, << "Ɪ", "U+026A" >>,
      << "Ʞ", "ʞ" >>, << "Ʇ", "ʇ" >>, << "Ʝ", "ʝ" >>, << "Ꭓ", "U+AB53" >>,
      << "Ꞵ", "ꞵ" >>, << "Ꞷ", "ꞷ" >>, << "Ꞹ", "ꞹ" >>, << "Ꞻ", "ꞻ" >>,
      << "Ꞽ", "ꞽ" >>, << "Ꞿ", "ꞿ" >>, << "Ꟁ", "ꟁ" >>, << "Ꟃ", "ꟃ" >>,
      << "Ꞔ", "ꞔ" >>, << "Ʂ", "ʂ" >>, << "Ᶎ", "ᶎ" >>, << "Ꟈ", "ꟈ" >>,
      << "Ꟊ", "ꟊ" >>, << "Ɤ", "U+0264" >>, << "Ꟍ", "ꟍ" >>, << "꟎", "꟏" >>,
      << "Ꟑ", "ꟑ" >>, << "꟒", "ꟓ" >>, << "꟔", "ꟕ" >>, << "Ꟗ", "ꟗ" >>,
      << "Ꟙ", "ꟙ" >>, << "Ꟛ", "ꟛ" >>, << "Ƛ", "ƛ" >>, << "Ꟶ", "ꟶ" >>,
      << "U+FF21", "U+FF41" >>, << "U+FF22", "U+FF42" >>,
      << "U+FF23", "U+FF43" >>, << "U+FF24", "U+FF44" >>,
      << "U+FF25", "U+FF45" >>, << "U+FF26", "U+FF46" >>,
      << "U+FF27", "U+FF47" >>, << "U+FF28", "U+FF48" >>,
      << "U+FF29", "U+FF49" >>, << "U+FF2A", "U+FF4A" >>,
      << "U+FF2B", "U+FF4B" >>, << "U+FF2C", "U+FF4C" >>,
      << "U+FF2D", "U+FF4D" >>, << "U+FF2E", "U+FF4E" >>,
      << "U+FF2F", "U+FF4F" >>, << "U+FF30", "U+FF50" >>,
      << "U+FF31", "U+FF51" >>, << "U+FF32", "U+FF52" >>,
      << "U+FF33", "U+FF53" >>, << "U+FF34", "U+FF54" >>,
      << "U+FF35", "U+FF55" >>, << "U+FF36", "U+FF56" >>,
      << "U+FF37", "U+FF57" >>, << "U+FF38", "U+FF58" >>,
      << "U+FF39", "U+FF59" >>, << "U+FF3A", "U+FF5A" >>,
      << "U+10400", "U+10428" >>, << "U+10401", "U+10429" >>,
      << "U+10402", "U+1042A" >>, << "U+10403", "U+1042B" >>,
      << "U+10404", "U+1042C" >>, << "U+10405", "U+1042D" >>,
      << "U+10406", "U+1042E" >>, << "U+10407", "U+1042F" >>,
      << "U+10408", "U+10430" >>, << "U+10409", "U+10431" >>,
      << "U+1040A", "U+10432" >>, << "U+1040B", "U+10433" >>,
      << "U+1040C", "U+10434" >>, << "U+1040D", "U+10435" >>,
      << "U+1040E", "U+10436" >>, << "U+1040F", "U+10437" >>,
      << "U+10410", "U+10438" >>, << "U+10411", "U+10439" >>,
      << "U+10412", "U+1043A" >>, << "U+10413", "U+1043B" >>,
      << "U+10414", "U+1043C" >>, << "U+10415", "U+1043D" >>,
      << "U+10416", "U+1043E" >>, << "U+10417", "U+1043F" >>,
      << "U+10418", "U+10440" >>, << "U+10419", "U+10441" >>,
      << "U+1041A", "U+10442" >>, << "U+1041B", "U+10443" >>,
      << "U+1041C", "U+10444" >>, << "U+1041D", "U+10445" >>,
      << "U+1041E", "U+10446" >>, << "U+1041F", "U+10447" >>,
      << "U+10420", "U+10448" >>, << "U+10421", "U+10449" >>,
      << "U+10422", "U+1044A" >>, << "U+10423", "U+1044B" >>,
      << "U+10424", "U+1044C" >>, << "U+10425", "U+1044D" >>,
      << "U+10426", "U+1044E" >>, << "U+10427", "U+1044F" >>,
      << "U+104B0", "U+104D8" >>, << "U+104B1", "U+104D9" >>,
      << "U+104B2", "U+104DA" >>, << "U+104B3", "U+104DB" >>,
      << "U+104B4", "U+104DC" >>, << "U+104B5", "U+104DD" >>,
      << "U+104B6", "U+104DE" >>, << "U+104B7", "U+104DF" >>,
      << "U+104B8", "U+104E0" >>, << "U+104B9", "U+104E1" >>,
      << "U+104BA", "U+104E2" >>, << "U+104BB", "U+104E3" >>,
      << "U+104BC", "U+104E4" >>, << "U+104BD", "U+104E5" >>,
      << "U+104BE", "U+104E6" >>, << "U+104BF", "U+104E7" >>,
      << "U+104C0", "U+104E8" >>, << "U+104C1", "U+104E9" >>,
      << "U+104C2", "U+104EA" >>, << "U+104C3", "U+104EB" >>,
      << "U+104C4", "U+104EC" >>, << "U+104C5", "U+104ED" >>,
      << "U+104C6", "U+104EE" >>, << "U+104C7", "U+104EF" >>,
      << "U+104C8", "U+104F0" >>, << "U+104C9", "U+104F1" >>,
      << "U+104CA", "U+104F2" >>, << "U+104CB", "U+104F3" >>,
      << "U+104CC", "U+104F4" >>, << "U+104CD", "U+104F5" >>,
      << "U+104CE", "U+104F6" >>, << "U+104CF", "U+104F7" >>,
      << "U+104D0", "U+104F8" >>, << "U+104D1", "U+104F9" >>,
      << "U+104D2", "U+104FA" >>, << "U+104D3", "U+104FB" >>,
      << "U+10570", "U+10597" >>, << "U+10571", "U+10598" >>,
      << "U+10572", "U+10599" >>, << "U+10573", "U+1059A" >>,
      << "U+10574", "U+1059B" >>, << "U+10575", "U+1059C" >>,
      << "U+10576", "U+1059D" >>, << "U+10577", "U+1059E" >>,
      << "U+10578", "U+1059F" >>, << "U+10579", "U+105A0" >>,
      << "U+1057A", "U+105A1" >>, << "U+1057C", "U+105A3" >>,
      << "U+1057D", "U+105A4" >>, << "U+1057E", "U+105A5" >>,
      << "U+1057F", "U+105A6" >>, << "U+10580", "U+105A7" >>,
      << "U+10581", "U+105A8" >>, << "U+10582", "U+105A9" >>,
      << "U+10583", "U+105AA" >>, << "U+10584", "U+105AB" >>,
      << "U+10585", "U+105AC" >>, << "U+10586", "U+105AD" >>,
      << "U+10587", "U+105AE" >>, << "U+10588", "U+105AF" >>,
      << "U+10589", "U+105B0" >>, << "U+1058A", "U+105B1" >>,
      << "U+1058C", "U+105B3" >>, << "U+1058D", "U+105B4" >>,
      << "U+1058E", "U+105B5" >>, << "U+1058F", "U+105B6" >>,
      << "U+10590", "U+105B7" >>, << "U+10591", "U+105B8" >>,
      << "U+10592", "U+105B9" >>, << "U+10594", "U+105BB" >>,
      << "U+10595", "U+105BC" >>, << "U+10C80", "U+10CC0" >>,
      << "U+10C81", "U+10CC1" >>, << "U+10C82", "U+10CC2" >>,
      << "U+10C83", "U+10CC3" >>, << "U+10C84", "U+10CC4" >>,
      << "U+10C85", "U+10CC5" >>, << "U+10C86", "U+10CC6" >>,
      << "U+10C87", "U+10CC7" >>, << "U+10C88", "U+10CC8" >>,
      << "U+10C89", "U+10CC9" >>, << "U+10C8A", "U+10CCA" >>,
      << "U+10C8B", "U+10CCB" >>, << "U+10C8C", "U+10CCC" >>,
      << "U+10C8D", "U+10CCD" >>, << "U+10C8E", "U+10CCE" >>,
      << "U+10C8F", "U+10CCF" >>, << "U+10C90", "U+10CD0" >>,
      << "U+10C91", "U+10CD1" >>, << "U+10C92", "U+10CD2" >>,
      << "U+10C93", "U+10CD3" >>, << "U+10C94", "U+10CD4" >>,
      << "U+10C95", "U+10CD5" >>, << "U+10C96", "U+10CD6" >>,
      << "U+10C97", "U+10CD7" >>, << "U+10C98", "U+10CD8" >>,
      << "U+10C99", "U+10CD9" >>, << "U+10C9A", "U+10CDA" >>,
      << "U+10C9B", "U+10CDB" >>, << "U+10C9C", "U+10CDC" >>,
      << "U+10C9D", "U+10CDD" >>, << "U+10C9E", "U+10CDE" >>,
      << "U+10C9F", "U+10CDF" >>, << "U+10CA0", "U+10CE0" >>,
      << "U+10CA1", "U+10CE1" >>, << "U+10CA2", "U+10CE2" >>,
      << "U+10CA3", "U+10CE3" >>, << "U+10CA4", "U+10CE4" >>,
      << "U+10CA5", "U+10CE5" >>, << "U+10CA6", "U+10CE6" >>,
      << "U+10CA7", "U+10CE7" >>, << "U+10CA8", "U+10CE8" >>,
      << "U+10CA9", "U+10CE9" >>, << "U+10CAA", "U+10CEA" >>,
      << "U+10CAB", "U+10CEB" >>, << "U+10CAC", "U+10CEC" >>,
      << "U+10CAD", "U+10CED" >>, << "U+10CAE", "U+10CEE" >>,
      << "U+10CAF", "U+10CEF" >>, << "U+10CB0", "U+10CF0" >>,
      << "U+10CB1", "U+10CF1" >>, << "U+10CB2", "U+10CF2" >>,
      << "U+10D50", "U+10D70" >>, << "U+10D51", "U+10D71" >>,
      << "U+10D52", "U+10D72" >>, << "U+10D53", "U+10D73" >>,
      << "U+10D54", "U+10D74" >>, << "U+10D55", "U+10D75" >>,
      << "U+10D56", "U+10D76" >>, << "U+10D57", "U+10D77" >>,
      << "U+10D58", "U+10D78" >>, << "U+10D59", "U+10D79" >>,
      << "U+10D5A", "U+10D7A" >>, << "U+10D5B", "U+10D7B" >>,
      << "U+10D5C", "U+10D7C" >>, << "U+10D5D", "U+10D7D" >>,
      << "U+10D5E", "U+10D7E" >>, << "U+10D5F", "U+10D7F" >>,
      << "U+10D60", "U+10D80" >>, << "U+10D61", "U+10D81" >>,
      << "U+10D62", "U+10D82" >>, << "U+10D63", "U+10D83" >>,
      << "U+10D64", "U+10D84" >>, << "U+10D65", "U+10D85" >>,
      << "U+118A0", "U+118C0" >>, << "U+118A1", "U+118C1" >>,
      << "U+118A2", "U+118C2" >>, << "U+118A3", "U+118C3" >>,
      << "U+118A4", "U+118C4" >>, << "U+118A5", "U+118C5" >>,
      << "U+118A6", "U+118C6" >>, << "U+118A7", "U+118C7" >>,
      << "U+118A8", "U+118C8" >>, << "U+118A9", "U+118C9" >>,
      << "U+118AA", "U+118CA" >>, << "U+118AB", "U+118CB" >>,
      << "U+118AC", "U+118CC" >>, << "U+118AD", "U+118CD" >>,
      << "U+118AE", "U+118CE" >>, << "U+118AF", "U+118CF" >>,
      << "U+118B0", "U+118D0" >>, << "U+118B1", "U+118D1" >>,
      << "U+118B2", "U+118D2" >>, << "U+118B3", "U+118D3" >>,
      << "U+118B4", "U+118D4" >>, << "U+118B5", "U+118D5" >>,
      << "U+118B6", "U+118D6" >>, << "U+118B7", "U+118D7" >>,
      << "U+118B8", "U+118D8" >>, << "U+118B9", "U+118D9" >>,
      << "U+118BA", "U+118DA" >>, << "U+118BB", "U+118DB" >>,
      << "U+118BC", "U+118DC" >>, << "U+118BD", "U+118DD" >>,
      << "U+118BE", "U+118DE" >>, << "U+118BF", "U+118DF" >>,
      << "U+16E40", "U+16E60" >>, << "U+16E41", "U+16E61" >>,
      << "U+16E42", "U+16E62" >>, << "U+16E43", "U+16E63" >>,
      << "U+16E44", "U+16E64" >>, << "U+16E45", "U+16E65" >>,
      << "U+16E46", "U+16E66" >>, << "U+16E47", "U+16E67" >>,
      << "U+16E48", "U+16E68" >>, << "U+16E49", "U+16E69" >>,
      << "U+16E4A", "U+16E6A" >>, << "U+16E4B", "U+16E6B" >>,
      << "U+16E4C", "U+16E6C" >>, << "U+16E4D", "U+16E6D" >>,
      << "U+16E4E", "U+16E6E" >>, << "U+16E4F", "U+16E6F" >>,
      << "U+16E50", "U+16E70" >>, << "U+16E51", "U+16E71" >>,
      << "U+16E52", "U+16E72" >>, << "U+16E53", "U+16E73" >>,
      << "U+16E54", "U+16E74" >>, << "U+16E55", "U+16E75" >>,
      << "U+16E56", "U+16E76" >>, << "U+16E57", "U+16E77" >>,
      << "U+16E58", "U+16E78" >>, << "U+16E59", "U+16E79" >>,
      << "U+16E5A", "U+16E7A" >>, << "U+16E5B", "U+16E7B" >>,
      << "U+16E5C", "U+16E7C" >>, << "U+16E5D", "U+16E7D" >>,
      << "U+16E5E", "U+16E7E" >>, << "U+16E5F", "U+16E7F" >>,
      << "U+16EA0", "U+16EBB" >>, << "U+16EA1", "U+16EBC" >>,
      << "U+16EA2", "U+16EBD" >>, << "U+16EA3", "U+16EBE" >>,
      << "U+16EA4", "U+16EBF" >>, << "U+16EA5", "U+16EC0" >>,
      << "U+16EA6", "U+16EC1" >>, << "U+16EA7", "U+16EC2" >>,
      << "U+16EA8", "U+16EC3" >>, << "U+16EA9", "U+16EC4" >>,
      << "U+16EAA", "U+16EC5" >>, << "U+16EAB", "U+16EC6" >>,
      << "U+16EAC", "U+16EC7" >>, << "U+16EAD", "U+16EC8" >>,
      << "U+16EAE", "U+16EC9" >>, << "U+16EAF", "U+16ECA" >>,
      << "U+16EB0", "U+16ECB" >>, << "U+16EB1", "U+16ECC" >>,
      << "U+16EB2", "U+16ECD" >>, << "U+16EB3", "U+16ECE" >>,
      << "U+16EB4", "U+16ECF" >>, << "U+16EB5", "U+16ED0" >>,
      << "U+16EB6", "U+16ED1" >>, << "U+16EB7", "U+16ED2" >>,
      << "U+16EB8", "U+16ED3" >>, << "U+1E900", "U+1E922" >>,
      << "U+1E901", "U+1E923" >>, << "U+1E902", "U+1E924" >>,
      << "U+1E903", "U+1E925" >>, << "U+1E904", "U+1E926" >>,
      << "U+1E905", "U+1E927" >>, << "U+1E906", "U+1E928" >>,
      << "U+1E907", "U+1E929" >>, << "U+1E908", "U+1E92A" >>,
      << "U+1E909", "U+1E92B" >>, << "U+1E90A", "U+1E92C" >>,
      << "U+1E90B", "U+1E92D" >>, << "U+1E90C", "U+1E92E" >>,
      << "U+1E90D", "U+1E92F" >>, << "U+1E90E", "U+1E930" >>,
      << "U+1E90F", "U+1E931" >>, << "U+1E910", "U+1E932" >>,
      << "U+1E911", "U+1E933" >>, << "U+1E912", "U+1E934" >>,
      << "U+1E913", "U+1E935" >>, << "U+1E914", "U+1E936" >>,
      << "U+1E915", "U+1E937" >>, << "U+1E916", "U+1E938" >>,
      << "U+1E917", "U+1E939" >>, << "U+1E918", "U+1E93A" >>,
      << "U+1E919", "U+1E93B" >>, << "U+1E91A", "U+1E93C" >>,
      << "U+1E91B", "U+1E93D" >>, << "U+1E91C", "U+1E93E" >>,
      << "U+1E91D", "U+1E93F" >>, << "U+1E91E", "U+1E940" >>,
      << "U+1E91F", "U+1E941" >>, << "U+1E920", "U+1E942" >>,
      << "U+1E921", "U+1E943" >> }

\* The character with a lower case of two characters.
SpecialLowerCase ==
    { << "U+0130", << "i", "U+0307" >> >> }

\* The characters with the property Cased.
Cased ==
    { "A", "B", "C", "D", "E", "F", "G", "H", "I", "J", "K", "L", "M", "N",
      "O", "P", "Q", "R", "S", "T", "U", "V", "W", "X", "Y", "Z", "a", "b",
      "c", "d", "e", "f", "g", "h", "i", "j", "k", "l", "m", "n", "o", "p",
      "q", "r", "s", "t", "u", "v", "w", "x", "y", "z", "ª", "µ", "º", "À",
      "Á", "Â", "Ã", "Ä", "Å", "Æ", "Ç", "È", "É", "Ê", "Ë", "Ì", "Í", "Î",
      "Ï", "Ð", "Ñ", "Ò", "Ó", "Ô", "Õ", "Ö", "Ø", "Ù", "Ú", "Û", "Ü", "Ý",
      "Þ", "ß", "à", "á", "â", "ã", "ä", "å", "æ", "ç", "è", "é", "ê", "ë",
      "ì", "í", "î", "ï", "ð", "ñ", "ò", "ó", "ô", "õ", "ö", "ø", "ù", "ú",
      "û", "ü", "ý", "þ", "ÿ", "U+0100", "U+0101", "U+0102", "U+0103",
      "U+0104", "U+0105", "U+0106", "U+0107", "U+0108", "U+0109", "U+010A",
      "U+010B", "U+010C", "U+010D", "U+010E", "U+010F", "U+0110", "U+0111",
      "U+0112", "U+0113", "U+0114", "U+0115", "U+0116", "U+0117", "U+0118",
      "U+0119", "U+011A", "U+011B", "U+011C", "U+011D", "U+011E", "U+011F",
      "U+0120", "U+0121", "U+0122", "U+0123", "U+0124", "U+0125", "U+0126",
      "U+0127", "U+0128", "U+0129", "U+012A", "U+012B", "U+012C", "U+012D",
      "U+012E", "U+012F", "U+0130", "U+0131", "U+0132", "U+0133", "U+0134",
      "U+0135", "U+0136", "U+0137", "U+0138", "U+0139", "U+013A", "U+013B",
      "U+013C", "U+013D", "U+013E", "U+013F", "U+0140", "U+0141", "U+0142",
      "U+0143", "U+0144", "U+0145", "U+0146", "U+0147", "U+0148", "U+0149",
      "U+014A", "U+014B", "U+014C", "U+014D", "U+014E", "U+014F", "U+0150",
      "U+0151", "U+0152", "U+0153", "U+0154", "U+0155", "U+0156", "U+0157",
      "U+0158", "U+0159", "U+015A", "U+015B", "U+015C", "U+015D", "U+015E",
      "U+015F", "U+0160", "U+0161", "U+0162", "U+0163", "U+0164", "U+0165",
      "U+0166", "U+0167", "U+0168", "U+0169", "U+016A", "U+016B", "U+016C",
      "U+016D", "U+016E", "U+016F", "U+0170", "U+0171", "U+0172", "U+0173",
      "U+0174", "U+0175", "U+0176", "U+0177", "U+0178", "U+0179", "U+017A",
      "U+017B", "U+017C", "U+017D", "U+017E", "U+017F", "ƀ", "Ɓ", "Ƃ", "ƃ",
      "Ƅ", "ƅ", "Ɔ", "Ƈ", "ƈ", "Ɖ", "Ɗ", "Ƌ", "ƌ", "ƍ", "Ǝ", "Ə", "Ɛ", "Ƒ",
      "ƒ", "Ɠ", "Ɣ", "ƕ", "Ɩ", "Ɨ", "Ƙ", "ƙ", "ƚ", "ƛ", "Ɯ", "Ɲ", "ƞ", "Ɵ",
      "Ơ", "ơ", "Ƣ", "ƣ", "Ƥ", "ƥ", "Ʀ", "Ƨ", "ƨ", "Ʃ", "ƪ", "ƫ", "Ƭ", "ƭ",
      "Ʈ", "Ư", "ư", "Ʊ", "Ʋ", "Ƴ", "ƴ", "Ƶ", "ƶ", "Ʒ", "Ƹ", "ƹ", "ƺ", "Ƽ",
      "ƽ", "ƾ", "ƿ", "Ǆ", "ǅ", "ǆ", "Ǉ", "ǈ", "ǉ", "Ǌ", "ǋ", "ǌ", "Ǎ", "ǎ",
      "Ǐ", "ǐ", "Ǒ", "ǒ", "Ǔ", "ǔ", "Ǖ", "ǖ", "Ǘ", "ǘ", "Ǚ", "ǚ", "Ǜ", "ǜ",
      "ǝ", "Ǟ", "ǟ", "Ǡ", "ǡ", "Ǣ", "ǣ", "Ǥ", "ǥ", "Ǧ", "ǧ", "Ǩ", "ǩ", "Ǫ",
      "ǫ", "Ǭ", "ǭ", "Ǯ", "ǯ", "ǰ", "Ǳ", "ǲ", "ǳ", "Ǵ", "ǵ", "Ƕ", "Ƿ", "Ǹ",
      "ǹ", "Ǻ", "ǻ", "Ǽ", "ǽ", "Ǿ", "ǿ", "U+0200", "U+0201", "U+0202",
      "U+0203", "U+0204", "U+0205", "U+0206", "U+0207", "U+0208", "U+0209",
      "U+020A", "U+020B", "U+020C", "U+020D", "U+020E", "U+020F", "U+0210",
      "U+0211", "U+0212", "U+0213", "U+0214", "U+0215", "U+0216", "U+0217",
      "U+0218", "U+0219", "U+021A", "U+021B", "U+021C", "U+021D", "U+021E",
      "U+021F", "U+0220", "U+0221", "U+0222", "U+0223", "U+0224", "U+0225",
      "U+0226", "U+0227", "U+0228", "U+0229", "U+022A", "U+022B", "U+022C",
      "U+022D", "U+022E", "U+022F", "U+0230", "U+0231", "U+0232", "U+0233",
      "U+0234", "U+0235", "U+0236", "U+0237", "U+0238", "U+0239", "U+023A",
      "U+023B", "U+023C", "U+023D", "U+023E", "U+023F", "U+0240", "U+0241",
      "U+0242", "U+0243", "U+0244", "U+0245", "U+0246", "U+0247", "U+0248",
      "U+0249", "U+024A", "U+024B", "U+024C", "U+024D", "U+024E", "U+024F",
      "U+0250", "U+0251", "U+0252", "U+0253", "U+0254", "U+0255", "U+0256",
      "U+0257", "U+0258", "U+0259", "U+025A", "U+025B", "U+025C", "U+025D",
      "U+025E", "U+025F", "U+0260", "U+0261", "U+0262", "U+0263", "U+0264",
      "U+0265", "U+0266", "U+0267", "U+0268", "U+0269", "U+026A", "U+026B",
      "U+026C", "U+026D", "U+026E", "U+026F", "U+0270", "U+0271", "U+0272",
      "U+0273", "U+0274", "U+0275", "U+0276", "U+0277", "U+0278", "U+0279",
      "U+027A", "U+027B", "U+027C", "U+027D", "U+027E", "U+027F", "ʀ", "ʁ",
      "ʂ", "ʃ", "ʄ", "ʅ", "ʆ", "ʇ", "ʈ", "ʉ", "ʊ", "ʋ", "ʌ", "ʍ", "ʎ", "ʏ",
      "ʐ", "ʑ", "ʒ", "ʓ", "ʖ", "ʗ", "ʘ", "ʙ", "ʚ", "ʛ", "ʜ", "ʝ", "ʞ", "ʟ",
      "ʠ", "ʡ", "ʢ", "ʣ", "ʤ", "ʥ", "ʦ", "ʧ", "ʨ", "ʩ", "ʪ", "ʫ", "ʬ", "ʭ",
      "ʮ", "ʯ", "ʰ", "ʱ", "ʲ", "ʳ", "ʴ", "ʵ", "ʶ", "ʷ", "ʸ", "ˀ", "ˁ", "ˠ",
      "ˡ", "ˢ", "ˣ", "ˤ", "U+0345", "U+0370", "U+0371", "U+0372", "U+0373",
      "U+0376", "U+0377", "U+037A", "U+037B", "U+037C", "U+037D", "U+037F",
      "Ά", "Έ", "Ή", "Ί", "Ό", "Ύ", "Ώ", "ΐ", "Α", "Β", "Γ", "Δ", "Ε", "Ζ",
      "Η", "Θ", "Ι", "Κ", "Λ", "Μ", "Ν", "Ξ", "Ο", "Π", "Ρ", "Σ", "Τ", "Υ",
      "Φ", "Χ", "Ψ", "Ω", "Ϊ", "Ϋ", "ά", "έ", "ή", "ί", "ΰ", "α", "β", "γ",
      "δ", "ε", "ζ", "η", "θ", "ι", "κ", "λ", "μ", "ν", "ξ", "ο", "π", "ρ",
      "ς", "σ", "τ", "υ", "φ", "χ", "ψ", "ω", "ϊ", "ϋ", "ό", "ύ", "ώ", "Ϗ",
      "ϐ", "ϑ", "ϒ", "ϓ", "ϔ", "ϕ", "ϖ", "ϗ", "Ϙ", "ϙ", "Ϛ", "ϛ", "Ϝ", "ϝ",
      "Ϟ", "ϟ", "Ϡ", "ϡ", "Ϣ", "ϣ", "Ϥ", "ϥ", "Ϧ", "ϧ", "Ϩ", "ϩ", "Ϫ", "ϫ",
      "Ϭ", "ϭ", "Ϯ", "ϯ", "ϰ", "ϱ", "ϲ", "ϳ", "ϴ", "ϵ", "Ϸ", "ϸ", "Ϲ", "Ϻ",
      "ϻ", "ϼ", "Ͻ", "Ͼ", "Ͽ", "U+0400", "U+0401", "U+0402", "U+0403",
      "U+0404", "U+0405", "U+0406", "U+0407", "U+0408", "U+0409", "U+040A",
      "U+040B", "U+040C", "U+040D", "U+040E", "U+040F", "U+0410", "U+0411",
      "U+0412", "U+0413", "U+0414", "U+0415", "U+0416", "U+0417", "U+0418",
      "U+0419", "U+041A", "U+041B", "U+041C", "U+041D", "U+041E", "U+041F",
      "U+0420", "U+0421", "U+0422", "U+0423", "U+0424", "U+0425", "U+0426",
      "U+0427", "U+0428", "U+0429", "U+042A", "U+042B", "U+042C", "U+042D",
      "U+042E", "U+042F", "U+0430", "U+0431", "U+0432", "U+0433", "U+0434",
      "U+0435", "U+0436", "U+0437", "U+0438", "U+0439", "U+043A", "U+043B",
      "U+043C", "U+043D", "U+043E", "U+043F", "U+0440", "U+0441", "U+0442",
      "U+0443", "U+0444", "U+0445", "U+0446", "U+0447", "U+0448", "U+0449",
      "U+044A", "U+044B", "U+044C", "U+044D", "U+044E", "U+044F", "U+0450",
      "U+0451", "U+0452", "U+0453", "U+0454", "U+0455", "U+0456", "U+0457",
      "U+0458", "U+0459", "U+045A", "U+045B", "U+045C", "U+045D", "U+045E",
      "U+045F", "U+0460", "U+0461", "U+0462", "U+0463", "U+0464", "U+0465",
      "U+0466", "U+0467", "U+0468", "U+0469", "U+046A", "U+046B", "U+046C",
      "U+046D", "U+046E", "U+046F", "U+0470", "U+0471", "U+0472", "U+0473",
      "U+0474", "U+0475", "U+0476", "U+0477", "U+0478", "U+0479", "U+047A",
      "U+047B", "U+047C", "U+047D", "U+047E", "U+047F", "Ҁ", "ҁ", "Ҋ", "ҋ",
      "Ҍ", "ҍ", "Ҏ", "ҏ", "Ґ", "ґ", "Ғ", "ғ", "Ҕ", "ҕ", "Җ", "җ", "Ҙ", "ҙ",
      "Қ", "қ", "Ҝ", "ҝ", "Ҟ", "ҟ", "Ҡ", "ҡ", "Ң", "ң", "Ҥ", "ҥ", "Ҧ", "ҧ",
      "Ҩ", "ҩ", "Ҫ", "ҫ", "Ҭ", "ҭ", "Ү", "ү", "Ұ", "ұ", "Ҳ", "ҳ", "Ҵ", "ҵ",
      "Ҷ", "ҷ", "Ҹ", "ҹ", "Һ", "һ", "Ҽ", "ҽ", "Ҿ", "ҿ", "Ӏ", "Ӂ", "ӂ", "Ӄ",
      "ӄ", "Ӆ", "ӆ", "Ӈ", "ӈ", "Ӊ", "ӊ", "Ӌ", "ӌ", "Ӎ", "ӎ", "ӏ", "Ӑ", "ӑ",
      "Ӓ", "ӓ", "Ӕ", "ӕ", "Ӗ", "ӗ", "Ә", "ә", "Ӛ", "ӛ", "Ӝ", "ӝ", "Ӟ", "ӟ",
      "Ӡ", "ӡ", "Ӣ", "ӣ", "Ӥ", "ӥ", "Ӧ", "ӧ", "Ө", "ө", "Ӫ", "ӫ", "Ӭ", "ӭ",
      "Ӯ", "ӯ", "Ӱ", "ӱ", "Ӳ", "ӳ", "Ӵ", "ӵ", "Ӷ", "ӷ", "Ӹ", "ӹ", "Ӻ", "ӻ",
      "Ӽ", "ӽ", "Ӿ", "ӿ", "U+0500", "U+0501", "U+0502", "U+0503", "U+0504",
      "U+0505", "U+0506", "U+0507", "U+0508", "U+0509", "U+050A", "U+050B",
      "U+050C", "U+050D", "U+050E", "U+050F", "U+0510", "U+0511", "U+0512",
      "U+0513", "U+0514", "U+0515", "U+0516", "U+0517", "U+0518", "U+0519",
      "U+051A", "U+051B", "U+051C", "U+051D", "U+051E", "U+051F", "U+0520",
      "U+0521", "U+0522", "U+0523", "U+0524", "U+0525", "U+0526", "U+0527",
      "U+0528", "U+0529", "U+052A", "U+052B", "U+052C", "U+052D", "U+052E",
      "U+052F", "U+0531", "U+0532", "U+0533", "U+0534", "U+0535", "U+0536",
      "U+0537", "U+0538", "U+0539", "U+053A", "U+053B", "U+053C", "U+053D",
      "U+053E", "U+053F", "U+0540", "U+0541", "U+0542", "U+0543", "U+0544",
      "U+0545", "U+0546", "U+0547", "U+0548", "U+0549", "U+054A", "U+054B",
      "U+054C", "U+054D", "U+054E", "U+054F", "U+0550", "U+0551", "U+0552",
      "U+0553", "U+0554", "U+0555", "U+0556", "U+0560", "U+0561", "U+0562",
      "U+0563", "U+0564", "U+0565", "U+0566", "U+0567", "U+0568", "U+0569",
      "U+056A", "U+056B", "U+056C", "U+056D", "U+056E", "U+056F", "U+0570",
      "U+0571", "U+0572", "U+0573", "U+0574", "U+0575", "U+0576", "U+0577",
      "U+0578", "U+0579", "U+057A", "U+057B", "U+057C", "U+057D", "U+057E",
      "U+057F", "ր", "ց", "ւ", "փ", "ք", "օ", "ֆ", "և", "ֈ", "Ⴀ", "Ⴁ", "Ⴂ",
      "Ⴃ", "Ⴄ", "Ⴅ", "Ⴆ", "Ⴇ", "Ⴈ", "Ⴉ", "Ⴊ", "Ⴋ", "Ⴌ", "Ⴍ", "Ⴎ", "Ⴏ", "Ⴐ",
      "Ⴑ", "Ⴒ", "Ⴓ", "Ⴔ", "Ⴕ", "Ⴖ", "Ⴗ", "Ⴘ", "Ⴙ", "Ⴚ", "Ⴛ", "Ⴜ", "Ⴝ", "Ⴞ",
      "Ⴟ", "Ⴠ", "Ⴡ", "Ⴢ", "Ⴣ", "Ⴤ", "Ⴥ", "Ⴧ", "Ⴭ", "ა", "ბ", "გ", "დ", "ე",
      "ვ", "ზ", "თ", "ი", "კ", "ლ", "მ", "ნ", "ო", "პ", "ჟ", "რ", "ს", "ტ",
      "უ", "ფ", "ქ", "ღ", "ყ", "შ", "ჩ", "ც", "ძ", "წ", "ჭ", "ხ", "ჯ", "ჰ",
      "ჱ", "ჲ", "ჳ", "ჴ", "ჵ", "ჶ", "ჷ", "ჸ", "ჹ", "ჺ", "ჼ", "ჽ", "ჾ", "ჿ",
      "Ꭰ", "Ꭱ", "Ꭲ", "Ꭳ", "Ꭴ", "Ꭵ", "Ꭶ", "Ꭷ", "Ꭸ", "Ꭹ", "Ꭺ", "Ꭻ", "Ꭼ", "Ꭽ",
      "Ꭾ", "Ꭿ", "Ꮀ", "Ꮁ", "Ꮂ", "Ꮃ", "Ꮄ", "Ꮅ", "Ꮆ", "Ꮇ", "Ꮈ", "Ꮉ", "Ꮊ", "Ꮋ",
      "Ꮌ", "Ꮍ", "Ꮎ", "Ꮏ", "Ꮐ", "Ꮑ", "Ꮒ", "Ꮓ", "Ꮔ", "Ꮕ", "Ꮖ", "Ꮗ", "Ꮘ", "Ꮙ",
      "Ꮚ", "Ꮛ", "Ꮜ", "Ꮝ", "Ꮞ", "Ꮟ", "Ꮠ", "Ꮡ", "Ꮢ", "Ꮣ", "Ꮤ", "Ꮥ", "Ꮦ", "Ꮧ",
      "Ꮨ", "Ꮩ", "Ꮪ", "Ꮫ", "Ꮬ", "Ꮭ", "Ꮮ", "Ꮯ", "Ꮰ", "Ꮱ", "Ꮲ", "Ꮳ", "Ꮴ", "Ꮵ",
      "Ꮶ", "Ꮷ", "Ꮸ", "Ꮹ", "Ꮺ", "Ꮻ", "Ꮼ", "Ꮽ", "Ꮾ", "Ꮿ", "Ᏸ", "Ᏹ", "Ᏺ", "Ᏻ",
      "Ᏼ", "Ᏽ", "ᏸ", "ᏹ", "ᏺ", "ᏻ", "ᏼ", "ᏽ", "ᲀ", "ᲁ", "ᲂ", "ᲃ", "ᲄ", "ᲅ",
      "ᲆ", "ᲇ", "ᲈ", "Ᲊ", "ᲊ", "Ა", "Ბ", "Გ", "Დ", "Ე", "Ვ", "Ზ", "Თ", "Ი",
      "Კ", "Ლ", "Მ", "Ნ", "Ო", "Პ", "Ჟ", "Რ", "Ს", "Ტ", "Უ", "Ფ", "Ქ", "Ღ",
      "Ყ", "Შ", "Ჩ", "Ც", "Ძ", "Წ", "Ჭ", "Ხ", "Ჯ", "Ჰ", "Ჱ", "Ჲ", "Ჳ", "Ჴ",
      "Ჵ", "Ჶ", "Ჷ", "Ჸ", "Ჹ", "Ჺ", "Ჽ", "Ჾ", "Ჿ", "U+1D00", "U+1D01",
      "U+1D02", "U+1D03", "U+1D04", "U+1D05", "U+1D06", "U+1D07", "U+1D08",
      "U+1D09", "U+1D0A", "U+1D0B", "U+1D0C", "U+1D0D", "U+1D0E", "U+1D0F",
      "U+1D10", "U+1D11", "U+1D12", "U+1D13", "U+1D14", "U+1D15", "U+1D16",
      "U+1D17", "U+1D18", "U+1D19", "U+1D1A", "U+1D1B", "U+1D1C", "U+1D1D",
      "U+1D1E", "U+1D1F", "U+1D20", "U+1D21", "U+1D22", "U+1D23", "U+1D24",
      "U+1D25", "U+1D26", "U+1D27", "U+1D28", "U+1D29", "U+1D2A", "U+1D2B",
      "U+1D2C", "U+1D2D", "U+1D2E", "U+1D2F", "U+1D30", "U+1D31", "U+1D32",
      "U+1D33", "U+1D34", "U+1D35", "U+1D36", "U+1D37", "U+1D38", "U+1D39",
      "U+1D3A", "U+1D3B", "U+1D3C", "U+1D3D", "U+1D3E", "U+1D3F", "U+1D40",
      "U+1D41", "U+1D42", "U+1D43", "U+1D44", "U+1D45", "U+1D46", "U+1D47",
      "U+1D48", "U+1D49", "U+1D4A", "U+1D4B", "U+1D4C", "U+1D4D", "U+1D4E",
      "U+1D4F", "U+1D50", "U+1D51", "U+1D52", "U+1D53", "U+1D54", "U+1D55",
      "U+1D56", "U+1D57", "U+1D58", "U+1D59", "U+1D5A", "U+1D5B", "U+1D5C",
      "U+1D5D", "U+1D5E", "U+1D5F", "U+1D60", "U+1D61", "U+1D62", "U+1D63",
      "U+1D64", "U+1D65", "U+1D66", "U+1D67", "U+1D68", "U+1D69", "U+1D6A",
      "U+1D6B", "U+1D6C", "U+1D6D", "U+1D6E", "U+1D6F", "U+1D70", "U+1D71",
      "U+1D72", "U+1D73", "U+1D74", "U+1D75", "U+1D76", "U+1D77", "U+1D78",
      "U+1D79", "U+1D7A", "U+1D7B", "U+1D7C", "U+1D7D", "U+1D7E", "U+1D7F",
      "ᶀ", "ᶁ", "ᶂ", "ᶃ", "ᶄ", "ᶅ", "ᶆ", "ᶇ", "ᶈ", "ᶉ", "ᶊ", "ᶋ", "ᶌ", "ᶍ",
      "ᶎ", "ᶏ", "ᶐ", "ᶑ", "ᶒ", "ᶓ", "ᶔ", "ᶕ", "ᶖ", "ᶗ", "ᶘ", "ᶙ", "ᶚ", "ᶛ",
      "ᶜ", "ᶝ", "ᶞ", "ᶟ", "ᶠ", "ᶡ", "ᶢ", "ᶣ", "ᶤ", "ᶥ", "ᶦ", "ᶧ", "ᶨ", "ᶩ",
      "ᶪ", "ᶫ", "ᶬ", "ᶭ", "ᶮ", "ᶯ", "ᶰ", "ᶱ", "ᶲ", "ᶳ", "ᶴ", "ᶵ", "ᶶ", "ᶷ",
      "ᶸ", "ᶹ", "ᶺ", "ᶻ", "ᶼ", "ᶽ", "ᶾ", "ᶿ", "U+1E00", "U+1E01", "U+1E02",
      "U+1E03", "U+1E04", "U+1E05", "U+1E06", "U+1E07", "U+1E08", "U+1E09",
      "U+1E0A", "U+1E0B", "U+1E0C", "U+1E0D", "U+1E0E", "U+1E0F", "U+1E10",
      "U+1E11", "U+1E12", "U+1E13", "U+1E14", "U+1E15", "U+1E16", "U+1E17",
      "U+1E18", "U+1E19", "U+1E1A", "U+1E1B", "U+1E1C", "U+1E1D", "U+1E1E",
      "U+1E1F", "U+1E20", "U+1E21", "U+1E22", "U+1E23", "U+1E24", "U+1E25",
      "U+1E26", "U+1E27", "U+1E28", "U+1E29", "U+1E2A", "U+1E2B", "U+1E2C",
      "U+1E2D", "U+1E2E", "U+1E2F", "U+1E30", "U+1E31", "U+1E32", "U+1E33",
      "U+1E34", "U+1E35", "U+1E36", "U+1E37", "U+1E38", "U+1E39", "U+1E3A",
      "U+1E3B", "U+1E3C", "U+1E3D", "U+1E3E", "U+1E3F", "U+1E40", "U+1E41",
      "U+1E42", "U+1E43", "U+1E44", "U+1E45", "U+1E46", "U+1E47", "U+1E48",
      "U+1E49", "U+1E4A", "U+1E4B", "U+1E4C", "U+1E4D", "U+1E4E", "U+1E4F",
      "U+1E50", "U+1E51", "U+1E52", "U+1E53", "U+1E54", "U+1E55", "U+1E56",
      "U+1E57", "U+1E58", "U+1E59", "U+1E5A", "U+1E5B", "U+1E5C", "U+1E5D",
      "U+1E5E", "U+1E5F", "U+1E60", "U+1E61", "U+1E62", "U+1E63", "U+1E64",
      "U+1E65", "U+1E66", "U+1E67", "U+1E68", "U+1E69", "U+1E6A", "U+1E6B",
      "U+1E6C", "U+1E6D", "U+1E6E", "U+1E6F", "U+1E70", "U+1E71", "U+1E72",
      "U+1E73", "U+1E74", "U+1E75", "U+1E76", "U+1E77", "U+1E78", "U+1E79",
      "U+1E7A", "U+1E7B", "U+1E7C", "U+1E7D", "U+1E7E", "U+1E7F", "Ẁ", "ẁ",
      "Ẃ", "ẃ", "Ẅ", "ẅ", "Ẇ", "ẇ", "Ẉ", "ẉ", "Ẋ", "ẋ", "Ẍ", "ẍ", "Ẏ", "ẏ",
      "Ẑ", "ẑ", "Ẓ", "ẓ", "Ẕ", "ẕ", "ẖ", "ẗ", "ẘ", "ẙ", "ẚ", "ẛ", "ẜ", "ẝ",
      "ẞ", "ẟ", "Ạ", "ạ", "Ả", "ả", "Ấ", "ấ", "Ầ", "ầ", "Ẩ", "ẩ", "Ẫ", "ẫ",
      "Ậ", "ậ", "Ắ", "ắ", "Ằ", "ằ", "Ẳ", "ẳ", "Ẵ", "ẵ", "Ặ", "ặ", "Ẹ", "ẹ",
      "Ẻ", "ẻ", "Ẽ", "ẽ", "Ế", "ế", "Ề", "ề", "Ể", "ể", "Ễ", "ễ", "Ệ", "ệ",
      "Ỉ", "ỉ", "Ị", "ị", "Ọ", "ọ", "Ỏ", "ỏ", "Ố", "ố", "Ồ", "ồ", "Ổ", "ổ",
      "Ỗ", "ỗ", "Ộ", "ộ", "Ớ", "ớ", "Ờ", "ờ", "Ở", "ở", "Ỡ", "ỡ", "Ợ", "ợ",
      "Ụ", "ụ", "Ủ", "ủ", "Ứ", "ứ", "Ừ", "ừ", "Ử", "ử", "Ữ", "ữ", "Ự", "ự",
      "Ỳ", "ỳ", "Ỵ", "ỵ", "Ỷ", "ỷ", "Ỹ", "ỹ", "Ỻ", "ỻ", "Ỽ", "ỽ", "Ỿ", "ỿ",
      "U+1F00", "U+1F01", "U+1F02", "U+1F03", "U+1F04", "U+1F05", "U+1F06",
      "U+1F07", "U+1F08", "U+1F09", "U+1F0A", "U+1F0B", "U+1F0C", "U+1F0D",
      "U+1F0E", "U+1F0F", "U+1F10", "U+1F11", "U+1F12", "U+1F13", "U+1F14",
      "U+1F15", "U+1F18", "U+1F19", "U+1F1A", "U+1F1B", "U+1F1C", "U+1F1D",
      "U+1F20", "U+1F21", "U+1F22", "U+1F23", "U+1F24", "U+1F25", "U+1F26",
      "U+1F27", "U+1F28", "U+1F29", "U+1F2A", "U+1F2B", "U+1F2C", "U+1F2D",
      "U+1F2E", "U+1F2F", "U+1F30", "U+1F31", "U+1F32", "U+1F33", "U+1F34",
      "U+1F35", "U+1F36", "U+1F37", "U+1F38", "U+1F39", "U+1F3A", "U+1F3B",
      "U+1F3C", "U+1F3D", "U+1F3E", "U+1F3F", "U+1F40", "U+1F41", "U+1F42",
      "U+1F43", "U+1F44", "U+1F45", "U+1F48", "U+1F49", "U+1F4A", "U+1F4B",
      "U+1F4C", "U+1F4D", "U+1F50", "U+1F51", "U+1F52", "U+1F53", "U+1F54",
      "U+1F55", "U+1F56", "U+1F57", "U+1F59", "U+1F5B", "U+1F5D", "U+1F5F",
      "U+1F60", "U+1F61", "U+1F62", "U+1F63", "U+1F64", "U+1F65", "U+1F66",
      "U+1F67", "U+1F68", "U+1F69", "U+1F6A", "U+1F6B", "U+1F6C", "U+1F6D",
      "U+1F6E", "U+1F6F", "U+1F70", "U+1F71", "U+1F72", "U+1F73", "U+1F74",
      "U+1F75", "U+1F76", "U+1F77", "U+1F78", "U+1F79", "U+1F7A", "U+1F7B",
      "U+1F7C", "U+1F7D", "ᾀ", "ᾁ", "ᾂ", "ᾃ", "ᾄ", "ᾅ", "ᾆ", "ᾇ", "ᾈ", "ᾉ",
      "ᾊ", "ᾋ", "ᾌ", "ᾍ", "ᾎ", "ᾏ", "ᾐ", "ᾑ", "ᾒ", "ᾓ", "ᾔ", "ᾕ", "ᾖ", "ᾗ",
      "ᾘ", "ᾙ", "ᾚ", "ᾛ", "ᾜ", "ᾝ", "ᾞ", "ᾟ", "ᾠ", "ᾡ", "ᾢ", "ᾣ", "ᾤ", "ᾥ",
      "ᾦ", "ᾧ", "ᾨ", "ᾩ", "ᾪ", "ᾫ", "ᾬ", "ᾭ", "ᾮ", "ᾯ", "ᾰ", "ᾱ", "ᾲ", "ᾳ",
      "ᾴ", "ᾶ", "ᾷ", "Ᾰ", "Ᾱ", "Ὰ", "Ά", "ᾼ", "ι", "ῂ", "ῃ", "ῄ", "ῆ", "ῇ",
      "Ὲ", "Έ", "Ὴ", "Ή", "ῌ", "ῐ", "ῑ", "ῒ", "ΐ", "ῖ", "ῗ", "Ῐ", "Ῑ", "Ὶ",
      "Ί", "ῠ", "ῡ", "ῢ", "ΰ", "ῤ", "ῥ", "ῦ", "ῧ", "Ῠ", "Ῡ", "Ὺ", "Ύ", "Ῥ",
      "ῲ", "ῳ", "ῴ", "ῶ", "ῷ", "Ὸ", "Ό", "Ὼ", "Ώ", "ῼ", "U+2071", "U+207F",
      "ₐ", "ₑ", "ₒ", "ₓ", "ₔ", "ₕ", "ₖ", "ₗ", "ₘ", "ₙ", "ₚ", "ₛ", "ₜ",
      "U+2102", "U+2107", "U+210A", "U+210B", "U+210C", "U+210D", "U+210E",
      "U+210F", "U+2110", "U+2111", "U+2112", "U+2113", "U+2115", "U+2119",
      "U+211A", "U+211B", "U+211C", "U+211D", "U+2124", "U+2126", "U+2128",
      "U+212A", "U+212B", "U+212C", "U+212D", "U+212F", "U+2130", "U+2131",
      "U+2132", "U+2133", "U+2134", "U+2139", "U+213C", "U+213D", "U+213E",
      "U+213F", "U+2145", "U+2146", "U+2147", "U+2148", "U+2149", "U+214E",
      "U+2160", "U+2161", "U+2162", "U+2163", "U+2164", "U+2165", "U+2166",
      "U+2167", "U+2168", "U+2169", "U+216A", "U+216B", "U+216C", "U+216D",
      "U+216E", "U+216F", "U+2170", "U+2171", "U+2172", "U+2173", "U+2174",
      "U+2175", "U+2176", "U+2177", "U+2178", "U+2179", "U+217A", "U+217B",
      "U+217C", "U+217D", "U+217E", "U+217F", "Ↄ", "ↄ", "Ⓐ", "Ⓑ", "Ⓒ", "Ⓓ",
      "Ⓔ", "Ⓕ", "Ⓖ", "Ⓗ", "Ⓘ", "Ⓙ", "Ⓚ", "Ⓛ", "Ⓜ", "Ⓝ", "Ⓞ", "Ⓟ", "Ⓠ", "Ⓡ",
      "Ⓢ", "Ⓣ", "Ⓤ", "Ⓥ", "Ⓦ", "Ⓧ", "Ⓨ", "Ⓩ", "ⓐ", "ⓑ", "ⓒ", "ⓓ", "ⓔ", "ⓕ",
      "ⓖ", "ⓗ", "ⓘ", "ⓙ", "ⓚ", "ⓛ", "ⓜ", "ⓝ", "ⓞ", "ⓟ", "ⓠ", "ⓡ", "ⓢ", "ⓣ",
      "ⓤ", "ⓥ", "ⓦ", "ⓧ", "ⓨ", "ⓩ", "U+2C00", "U+2C01", "U+2C02", "U+2C03",
      "U+2C04", "U+2C05", "U+2C06", "U+2C07", "U+2C08", "U+2C09", "U+2C0A",
      "U+2C0B", "U+2C0C", "U+2C0D", "U+2C0E", "U+2C0F", "U+2C10", "U+2C11",
      "U+2C12", "U+2C13", "U+2C14", "U+2C15", "U+2C16", "U+2C17", "U+2C18",
      "U+2C19", "U+2C1A", "U+2C1B", "U+2C1C", "U+2C1D", "U+2C1E", "U+2C1F",
      "U+2C20", "U+2C21", "U+2C22", "U+2C23", "U+2C24", "U+2C25", "U+2C26",
      "U+2C27", "U+2C28", "U+2C29", "U+2C2A", "U+2C2B", "U+2C2C", "U+2C2D",
      "U+2C2E", "U+2C2F", "U+2C30", "U+2C31", "U+2C32", "U+2C33", "U+2C34",
      "U+2C35", "U+2C36", "U+2C37", "U+2C38", "U+2C39", "U+2C3A", "U+2C3B",
      "U+2C3C", "U+2C3D", "U+2C3E", "U+2C3F", "U+2C40", "U+2C41", "U+2C42",
      "U+2C43", "U+2C44", "U+2C45", "U+2C46", "U+2C47", "U+2C48", "U+2C49",
      "U+2C4A", "U+2C4B", "U+2C4C", "U+2C4D", "U+2C4E", "U+2C4F", "U+2C50",
      "U+2C51", "U+2C52", "U+2C53", "U+2C54", "U+2C55", "U+2C56", "U+2C57",
      "U+2C58", "U+2C59", "U+2C5A", "U+2C5B", "U+2C5C", "U+2C5D", "U+2C5E",
      "U+2C5F", "U+2C60", "U+2C61", "U+2C62", "U+2C63", "U+2C64", "U+2C65",
      "U+2C66", "U+2C67", "U+2C68", "U+2C69", "U+2C6A", "U+2C6B", "U+2C6C",
      "U+2C6D", "U+2C6E", "U+2C6F", "U+2C70", "U+2C71", "U+2C72", "U+2C73",
      "U+2C74", "U+2C75", "U+2C76", "U+2C77", "U+2C78", "U+2C79", "U+2C7A",
      "U+2C7B", "U+2C7C", "U+2C7D", "U+2C7E", "U+2C7F", "Ⲁ", "ⲁ", "Ⲃ", "ⲃ",
      "Ⲅ", "ⲅ", "Ⲇ", "ⲇ", "Ⲉ", "ⲉ", "Ⲋ", "ⲋ", "Ⲍ", "ⲍ", "Ⲏ", "ⲏ", "Ⲑ", "ⲑ",
      "Ⲓ", "ⲓ", "Ⲕ", "ⲕ", "Ⲗ", "ⲗ", "Ⲙ", "ⲙ", "Ⲛ", "ⲛ", "Ⲝ", "ⲝ", "Ⲟ", "ⲟ",
      "Ⲡ", "ⲡ", "Ⲣ", "ⲣ", "Ⲥ", "ⲥ", "Ⲧ", "ⲧ", "Ⲩ", "ⲩ", "Ⲫ", "ⲫ", "Ⲭ", "ⲭ",
      "Ⲯ", "ⲯ", "Ⲱ", "ⲱ", "Ⲳ", "ⲳ", "Ⲵ", "ⲵ", "Ⲷ", "ⲷ", "Ⲹ", "ⲹ", "Ⲻ", "ⲻ",
      "Ⲽ", "ⲽ", "Ⲿ", "ⲿ", "Ⳁ", "ⳁ", "Ⳃ", "ⳃ", "Ⳅ", "ⳅ", "Ⳇ", "ⳇ", "Ⳉ", "ⳉ",
      "Ⳋ", "ⳋ", "Ⳍ", "ⳍ", "Ⳏ", "ⳏ", "Ⳑ", "ⳑ", "Ⳓ", "ⳓ", "Ⳕ", "ⳕ", "Ⳗ", "ⳗ",
      "Ⳙ", "ⳙ", "Ⳛ", "ⳛ", "Ⳝ", "ⳝ", "Ⳟ", "ⳟ", "Ⳡ", "ⳡ", "Ⳣ", "ⳣ", "ⳤ", "Ⳬ",
      "ⳬ", "Ⳮ", "ⳮ", "Ⳳ", "ⳳ", "U+2D00", "U+2D01", "U+2D02", "U+2D03",
      "U+2D04", "U+2D05", "U+2D06", "U+2D07", "U+2D08", "U+2D09", "U+2D0A",
      "U+2D0B", "U+2D0C", "U+2D0D", "U+2D0E", "U+2D0F", "U+2D10", "U+2D11",
      "U+2D12", "U+2D13", "U+2D14", "U+2D15", "U+2D16", "U+2D17", "U+2D18",
      "U+2D19", "U+2D1A", "U+2D1B", "U+2D1C", "U+2D1D", "U+2D1E", "U+2D1F",
      "U+2D20", "U+2D21", "U+2D22", "U+2D23", "U+2D24", "U+2D25", "U+2D27",
      "U+2D2D", "U+A640", "U+A641", "U+A642", "U+A643", "U+A644", "U+A645",
      "U+A646", "U+A647", "U+A648", "U+A649", "U+A64A", "U+A64B", "U+A64C",
      "U+A64D", "U+A64E", "U+A64F", "U+A650", "U+A651", "U+A652", "U+A653",
      "U+A654", "U+A655", "U+A656", "U+A657", "U+A658", "U+A659", "U+A65A",
      "U+A65B", "U+A65C", "U+A65D", "U+A65E", "U+A65F", "U+A660", "U+A661",
      "U+A662", "U+A663", "U+A664", "U+A665", "U+A666", "U+A667", "U+A668",
      "U+A669", "U+A66A", "U+A66B", "U+A66C", "U+A66D", "Ꚁ", "ꚁ", "Ꚃ", "ꚃ",
      "Ꚅ", "ꚅ", "Ꚇ", "ꚇ", "Ꚉ", "ꚉ", "Ꚋ", "ꚋ", "Ꚍ", "ꚍ", "Ꚏ", "ꚏ", "Ꚑ", "ꚑ",
      "Ꚓ", "ꚓ", "Ꚕ", "ꚕ", "Ꚗ", "ꚗ", "Ꚙ", "ꚙ", "Ꚛ", "ꚛ", "ꚜ", "ꚝ", "U+A722",
      "U+A723", "U+A724", "U+A725", "U+A726", "U+A727", "U+A728", "U+A729",
      "U+A72A", "U+A72B", "U+A72C", "U+A72D", "U+A72E", "U+A72F", "U+A730",
      "U+A731", "U+A732", "U+A733", "U+A734", "U+A735", "U+A736", "U+A737",
      "U+A738", "U+A739", "U+A73A", "U+A73B", "U+A73C", "U+A73D", "U+A73E",
      "U+A73F", "U+A740", "U+A741", "U+A742", "U+A743", "U+A744", "U+A745",
      "U+A746", "U+A747", "U+A748", "U+A749", "U+A74A", "U+A74B", "U+A74C",
      "U+A74D", "U+A74E", "U+A74F", "U+A750", "U+A751", "U+A752", "U+A753",
      "U+A754", "U+A755", "U+A756", "U+A757", "U+A758", "U+A759", "U+A75A",
      "U+A75B", "U+A75C", "U+A75D", "U+A75E", "U+A75F", "U+A760", "U+A761",
      "U+A762", "U+A763", "U+A764", "U+A765", "U+A766", "U+A767", "U+A768",
      "U+A769", "U+A76A", "U+A76B", "U+A76C", "U+A76D", "U+A76E", "U+A76F",
      "U+A770", "U+A771", "U+A772", "U+A773", "U+A774", "U+A775", "U+A776",
      "U+A777", "U+A778", "U+A779", "U+A77A", "U+A77B", "U+A77C", "U+A77D",
      "U+A77E", "U+A77F", "Ꞁ", "ꞁ", "Ꞃ", "ꞃ", "Ꞅ", "ꞅ", "Ꞇ", "ꞇ", "Ꞌ", "ꞌ",
      "Ɥ", "ꞎ", "Ꞑ", "ꞑ", "Ꞓ", "ꞓ", "ꞔ", "ꞕ", "Ꞗ", "ꞗ", "Ꞙ", "ꞙ", "Ꞛ", "ꞛ",
      "Ꞝ", "ꞝ", "Ꞟ", "ꞟ", "Ꞡ", "ꞡ", "Ꞣ", "ꞣ", "Ꞥ", "ꞥ", "Ꞧ", "ꞧ", "Ꞩ", "ꞩ",
      "Ɦ", "Ɜ", "Ɡ", "Ɬ", "Ɪ", "ꞯ", "Ʞ", "Ʇ", "Ʝ", "Ꭓ", "Ꞵ", "ꞵ", "Ꞷ", "ꞷ",
      "Ꞹ", "ꞹ", "Ꞻ", "ꞻ", "Ꞽ", "ꞽ", "Ꞿ", "ꞿ", "Ꟁ", "ꟁ", "Ꟃ", "ꟃ", "Ꞔ", "Ʂ",
      "Ᶎ", "Ꟈ", "ꟈ", "Ꟊ", "ꟊ", "Ɤ", "Ꟍ", "ꟍ", "꟎", "꟏", "Ꟑ", "ꟑ", "꟒", "ꟓ",
      "꟔", "ꟕ", "Ꟗ", "ꟗ", "Ꟙ", "ꟙ", "Ꟛ", "ꟛ", "Ƛ", "꟱", "ꟲ", "ꟳ", "ꟴ", "Ꟶ",
      "ꟶ", "ꟸ", "ꟹ", "ꟺ", "U+AB30", "U+AB31", "U+AB32", "U+AB33", "U+AB34",
      "U+AB35", "U+AB36", "U+AB37", "U+AB38", "U+AB39", "U+AB3A", "U+AB3B",
      "U+AB3C", "U+AB3D", "U+AB3E", "U+AB3F", "U+AB40", "U+AB41", "U+AB42",
      "U+AB43", "U+AB44", "U+AB45", "U+AB46", "U+AB47", "U+AB48", "U+AB49",
      "U+AB4A", "U+AB4B", "U+AB4C", "U+AB4D", "U+AB4E", "U+AB4F", "U+AB50",
      "U+AB51", "U+AB52", "U+AB53", "U+AB54", "U+AB55", "U+AB56", "U+AB57",
      "U+AB58", "U+AB59", "U+AB5A", "U+AB5C", "U+AB5D", "U+AB5E", "U+AB5F",
      "U+AB60", "U+AB61", "U+AB62", "U+AB63", "U+AB64", "U+AB65", "U+AB66",
      "U+AB67", "U+AB68", "U+AB69", "U+AB70", "U+AB71", "U+AB72", "U+AB73",
      "U+AB74", "U+AB75", "U+AB76", "U+AB77", "U+AB78", "U+AB79", "U+AB7A",
      "U+AB7B", "U+AB7C", "U+AB7D", "U+AB7E", "U+AB7F", "ꮀ", "ꮁ", "ꮂ", "ꮃ",
      "ꮄ", "ꮅ", "ꮆ", "ꮇ", "ꮈ", "ꮉ", "ꮊ", "ꮋ", "ꮌ", "ꮍ", "ꮎ", "ꮏ", "ꮐ", "ꮑ",
      "ꮒ", "ꮓ", "ꮔ", "ꮕ", "ꮖ", "ꮗ", "ꮘ", "ꮙ", "ꮚ", "ꮛ", "ꮜ", "ꮝ", "ꮞ", "ꮟ",
      "ꮠ", "ꮡ", "ꮢ", "ꮣ", "ꮤ", "ꮥ", "ꮦ", "ꮧ", "ꮨ", "ꮩ", "ꮪ", "ꮫ", "ꮬ", "ꮭ",
      "ꮮ", "ꮯ", "ꮰ", "ꮱ", "ꮲ", "ꮳ", "ꮴ", "ꮵ", "ꮶ", "ꮷ", "ꮸ", "ꮹ", "ꮺ", "ꮻ",
      "ꮼ", "ꮽ", "ꮾ", "ꮿ", "U+FB00", "U+FB01", "U+FB02", "U+FB03", "U+FB04",
      "U+FB05", "U+FB06", "U+FB13", "U+FB14", "U+FB15", "U+FB16", "U+FB17",
      "U+FF21", "U+FF22", "U+FF23", "U+FF24", "U+FF25", "U+FF26", "U+FF27",
      "U+FF28", "U+FF29", "U+FF2A", "U+FF2B", "U+FF2C", "U+FF2D", "U+FF2E",
      "U+FF2F", "U+FF30", "U+FF31", "U+FF32", "U+FF33", "U+FF34", "U+FF35",
      "U+FF36", "U+FF37", "U+FF38", "U+FF39", "U+FF3A", "U+FF41", "U+FF42",
      "U+FF43", "U+FF44", "U+FF45", "U+FF46", "U+FF47", "U+FF48", "U+FF49",
      "U+FF4A", "U+FF4B", "U+FF4C", "U+FF4D", "U+FF4E", "U+FF4F", "U+FF50",
      "U+FF51", "U+FF52", "U+FF53", "U+FF54", "U+FF55", "U+FF56", "U+FF57",
      "U+FF58", "U+FF59", "U+FF5A", "U+10400", "U+10401", "U+10402",
      "U+10403", "U+10404", "U+10405", "U+10406", "U+10407", "U+10408",
      "U+10409", "U+1040A", "U+1040B", "U+1040C", "U+1040D", "U+1040E",
      "U+1040F", "U+10410", "U+10411", "U+10412", "U+10413", "U+10414",
      "U+10415", "U+10416", "U+10417", "U+10418", "U+10419", "U+1041A",
      "U+1041B", "U+1041C", "U+1041D", "U+1041E", "U+1041F", "U+10420",
      "U+10421", "U+10422", "U+10423", "U+10424", "U+10425", "U+10426",
      "U+10427", "U+10428", "U+10429", "U+1042A", "U+1042B", "U+1042C",
      "U+1042D", "U+1042E", "U+1042F", "U+10430", "U+10431", "U+10432",
      "U+10433", "U+10434", "U+10435", "U+10436", "U+10437", "U+10438",
      "U+10439", "U+1043A", "U+1043B", "U+1043C", "U+1043D", "U+1043E",
      "U+1043F", "U+10440", "U+10441", "U+10442", "U+10443", "U+10444",
      "U+10445", "U+10446", "U+10447", "U+10448", "U+10449", "U+1044A",
      "U+1044B", "U+1044C", "U+1044D", "U+1044E", "U+1044F", "U+104B0",
      "U+104B1", "U+104B2", "U+104B3", "U+104B4", "U+104B5", "U+104B6",
      "U+104B7", "U+104B8", "U+104B9", "U+104BA", "U+104BB", "U+104BC",
      "U+104BD", "U+104BE", "U+104BF", "U+104C0", "U+104C1", "U+104C2",
      "U+104C3", "U+104C4", "U+104C5", "U+104C6", "U+104C7", "U+104C8",
      "U+104C9", "U+104CA", "U+104CB", "U+104CC", "U+104CD", "U+104CE",
      "U+104CF", "U+104D0", "U+104D1", "U+104D2", "U+104D3", "U+104D8",
      "U+104D9", "U+104DA", "U+104DB", "U+104DC", "U+104DD", "U+104DE",
      "U+104DF", "U+104E0", "U+104E1", "U+104E2", "U+104E3", "U+104E4",
      "U+104E5", "U+104E6", "U+104E7", "U+104E8", "U+104E9", "U+104EA",
      "U+104EB", "U+104EC", "U+104ED", "U+104EE", "U+104EF", "U+104F0",
      "U+104F1", "U+104F2", "U+104F3", "U+104F4", "U+104F5", "U+104F6",
      "U+104F7", "U+104F8", "U+104F9", "U+104FA", "U+104FB", "U+10570",
      "U+10571", "U+10572", "U+10573", "U+10574", "U+10575", "U+10576",
      "U+10577", "U+10578", "U+10579", "U+1057A", "U+1057C", "U+1057D",
      "U+1057E", "U+1057F", "U+10580", "U+10581", "U+10582", "U+10583",
      "U+10584", "U+10585", "U+10586", "U+10587", "U+10588", "U+10589",
      "U+1058A", "U+1058C", "U+1058D", "U+1058E", "U+1058F", "U+10590",
      "U+10591", "U+10592", "U+10594", "U+10595", "U+10597", "U+10598",
      "U+10599", "U+1059A", "U+1059B", "U+1059C", "U+1059D", "U+1059E",
      "U+1059F", "U+105A0", "U+105A1", "U+105A3", "U+105A4", "U+105A5",
      "U+105A6", "U+105A7", "U+105A8", "U+105A9", "U+105AA", "U+105AB",
      "U+105AC", "U+105AD", "U+105AE", "U+105AF", "U+105B0", "U+105B1",
      "U+105B3", "U+105B4", "U+105B5", "U+105B6", "U+105B7", "U+105B8",
      "U+105B9", "U+105BB", "U+105BC", "U+10780", "U+10783", "U+10784",
      "U+10785", "U+10787", "U+10788", "U+10789", "U+1078A", "U+1078B",
      "U+1078C", "U+1078D", "U+1078E", "U+1078F", "U+10790", "U+10791",
      "U+10792", "U+10793", "U+10794", "U+10795", "U+10796", "U+10797",
      "U+10798", "U+10799", "U+1079A", "U+1079B", "U+1079C", "U+1079D",
      "U+1079E", "U+1079F", "U+107A0", "U+107A1", "U+107A2", "U+107A3",
      "U+107A4", "U+107A5", "U+107A6", "U+107A7", "U+107A8", "U+107A9",
      "U+107AA", "U+107AB", "U+107AC", "U+107AD", "U+107AE", "U+107AF",
      "U+107B0", "U+107B2", "U+107B3", "U+107B4", "U+107B5", "U+107B6",
      "U+107B7", "U+107B8", "U+107B9", "U+107BA", "U+10C80", "U+10C81",
      "U+10C82", "U+10C83", "U+10C84", "U+10C85", "U+10C86", "U+10C87",
      "U+10C88", "U+10C89", "U+10C8A", "U+10C8B", "U+10C8C", "U+10C8D",
      "U+10C8E", "U+10C8F", "U+10C90", "U+10C91", "U+10C92", "U+10C93",
      "U+10C94", "U+10C95", "U+10C96", "U+10C97", "U+10C98", "U+10C99",
      "U+10C9A", "U+10C9B", "U+10C9C", "U+10C9D", "U+10C9E", "U+10C9F",
      "U+10CA0", "U+10CA1", "U+10CA2", "U+10CA3", "U+10CA4", "U+10CA5",
      "U+10CA6", "U+10CA7", "U+10CA8", "U+10CA9", "U+10CAA", "U+10CAB",
      "U+10CAC", "U+10CAD", "U+10CAE", "U+10CAF", "U+10CB0", "U+10CB1",
      "U+10CB2", "U+10CC0", "U+10CC1", "U+10CC2", "U+10CC3", "U+10CC4",
      "U+10CC5", "U+10CC6", "U+10CC7", "U+10CC8", "U+10CC9", "U+10CCA",
      "U+10CCB", "U+10CCC", "U+10CCD", "U+10CCE", "U+10CCF", "U+10CD0",
      "U+10CD1", "U+10CD2", "U+10CD3", "U+10CD4", "U+10CD5", "U+10CD6",
      "U+10CD7", "U+10CD8", "U+10CD9", "U+10CDA", "U+10CDB", "U+10CDC",
      "U+10CDD", "U+10CDE", "U+10CDF", "U+10CE0", "U+10CE1", "U+10CE2",
      "U+10CE3", "U+10CE4", "U+10CE5", "U+10CE6", "U+10CE7", "U+10CE8",
      "U+10CE9", "U+10CEA", "U+10CEB", "U+10CEC", "U+10CED", "U+10CEE",
      "U+10CEF", "U+10CF0", "U+10CF1", "U+10CF2", "U+10D50", "U+10D51",
      "U+10D52", "U+10D53", "U+10D54", "U+10D55", "U+10D56", "U+10D57",
      "U+10D58", "U+10D59", "U+10D5A", "U+10D5B", "U+10D5C", "U+10D5D",
      "U+10D5E", "U+10D5F", "U+10D60", "U+10D61", "U+10D62", "U+10D63",
      "U+10D64", "U+10D65", "U+10D70", "U+10D71", "U+10D72", "U+10D73",
      "U+10D74", "U+10D75", "U+10D76", "U+10D77", "U+10D78", "U+10D79",
      "U+10D7A", "U+10D7B", "U+10D7C", "U+10D7D", "U+10D7E", "U+10D7F",
      "U+10D80", "U+10D81", "U+10D82", "U+10D83", "U+10D84", "U+10D85",
      "U+118A0", "U+118A1", "U+118A2", "U+118A3", "U+118A4", "U+118A5",
      "U+118A6", "U+118A7", "U+118A8", "U+118A9", "U+118AA", "U+118AB",
      "U+118AC", "U+118AD", "U+118AE", "U+118AF", "U+118B0", "U+118B1",
      "U+118B2", "U+118B3", "U+118B4", "U+118B5", "U+118B6", "U+118B7",
      "U+118B8", "U+118B9", "U+118BA", "U+118BB", "U+118BC", "U+118BD",
      "U+118BE", "U+118BF", "U+118C0", "U+118C1", "U+118C2", "U+118C3",
      "U+118C4", "U+118C5", "U+118C6", "U+118C7", "U+118C8", "U+118C9",
      "U+118CA", "U+118CB", "U+118CC", "U+118CD", "U+118CE", "U+118CF",
      "U+118D0", "U+118D1", "U+118D2", "U+118D3", "U+118D4", "U+118D5",
      "U+118D6", "U+118D7", "U+118D8", "U+118D9", "U+118DA", "U+118DB",
      "U+118DC", "U+118DD", "U+118DE", "U+118DF", "U+16E40", "U+16E41",
      "U+16E42", "U+16E43", "U+16E44", "U+16E45", "U+16E46", "U+16E47",
      "U+16E48", "U+16E49", "U+16E4A", "U+16E4B", "U+16E4C", "U+16E4D",
      "U+16E4E", "U+16E4F", "U+16E50", "U+16E51", "U+16E52", "U+16E53",
      "U+16E54", "U+16E55", "U+16E56", "U+16E57", "U+16E58", "U+16E59",
      "U+16E5A", "U+16E5B", "U+16E5C", "U+16E5D", "U+16E5E", "U+16E5F",
      "U+16E60", "U+16E61", "U+16E62", "U+16E63", "U+16E64", "U+16E65",
      "U+16E66", "U+16E67", "U+16E68", "U+16E69", "U+16E6A", "U+16E6B",
      "U+16E6C", "U+16E6D", "U+16E6E", "U+16E6F", "U+16E70", "U+16E71",
      "U+16E72", "U+16E73", "U+16E74", "U+16E75", "U+16E76", "U+16E77",
      "U+16E78", "U+16E79", "U+16E7A", "U+16E7B", "U+16E7C", "U+16E7D",
      "U+16E7E", "U+16E7F", "U+16EA0", "U+16EA1", "U+16EA2", "U+16EA3",
      "U+16EA4", "U+16EA5", "U+16EA6", "U+16EA7", "U+16EA8", "U+16EA9",
      "U+16EAA", "U+16EAB", "U+16EAC", "U+16EAD", "U+16EAE", "U+16EAF",
      "U+16EB0", "U+16EB1", "U+16EB2", "U+16EB3", "U+16EB4", "U+16EB5",
      "U+16EB6", "U+16EB7", "U+16EB8", "U+16EBB", "U+16EBC", "U+16EBD",
      "U+16EBE", "U+16EBF", "U+16EC0", "U+16EC1", "U+16EC2", "U+16EC3",
      "U+16EC4", "U+16EC5", "U+16EC6", "U+16EC7", "U+16EC8", "U+16EC9",
      "U+16ECA", "U+16ECB", "U+16ECC", "U+16ECD", "U+16ECE", "U+16ECF",
      "U+16ED0", "U+16ED1", "U+16ED2", "U+16ED3", "U+1D400", "U+1D401",
      "U+1D402", "U+1D403", "U+1D404", "U+1D405", "U+1D406", "U+1D407",
      "U+1D408", "U+1D409", "U+1D40A", "U+1D40B", "U+1D40C", "U+1D40D",
      "U+1D40E", "U+1D40F", "U+1D410", "U+1D411", "U+1D412", "U+1D413",
      "U+1D414", "U+1D415", "U+1D416", "U+1D417", "U+1D418", "U+1D419",
      "U+1D41A", "U+1D41B", "U+1D41C", "U+1D41D", "U+1D41E", "U+1D41F",
      "U+1D420", "U+1D421", "U+1D422", "U+1D423", "U+1D424", "U+1D425",
      "U+1D426", "U+1D427", "U+1D428", "U+1D429", "U+1D42A", "U+1D42B",
      "U+1D42C", "U+1D42D", "U+1D42E", "U+1D42F", "U+1D430", "U+1D431",
      "U+1D432", "U+1D433", "U+1D434", "U+1D435", "U+1D436", "U+1D437",
      "U+1D438", "U+1D439", "U+1D43A", "U+1D43B", "U+1D43C", "U+1D43D",
      "U+1D43E", "U+1D43F", "U+1D440", "U+1D441", "U+1D442", "U+1D443",
      "U+1D444", "U+1D445", "U+1D446", "U+1D447", "U+1D448", "U+1D449",
      "U+1D44A", "U+1D44B", "U+1D44C", "U+1D44D", "U+1D44E", "U+1D44F",
      "U+1D450", "U+1D451", "U+1D452", "U+1D453", "U+1D454", "U+1D456",
      "U+1D457", "U+1D458", "U+1D459", "U+1D45A", "U+1D45B", "U+1D45C",
      "U+1D45D", "U+1D45E", "U+1D45F", "U+1D460", "U+1D461", "U+1D462",
      "U+1D463", "U+1D464", "U+1D465", "U+1D466", "U+1D467", "U+1D468",
      "U+1D469", "U+1D46A", "U+1D46B", "U+1D46C", "U+1D46D", "U+1D46E",
      "U+1D46F", "U+1D470", "U+1D471", "U+1D472", "U+1D473", "U+1D474",
      "U+1D475", "U+1D476", "U+1D477", "U+1D478", "U+1D479", "U+1D47A",
      "U+1D47B", "U+1D47C", "U+1D47D", "U+1D47E", "U+1D47F", "U+1D480",
      "U+1D481", "U+1D482", "U+1D483", "U+1D484", "U+1D485", "U+1D486",
      "U+1D487", "U+1D488", "U+1D489", "U+1D48A", "U+1D48B", "U+1D48C",
      "U+1D48D", "U+1D48E", "U+1D48F", "U+1D490", "U+1D491", "U+1D492",
      "U+1D493", "U+1D494", "U+1D495", "U+1D496", "U+1D497", "U+1D498",
      "U+1D499", "U+1D49A", "U+1D49B", "U+1D49C", "U+1D49E", "U+1D49F",
      "U+1D4A2", "U+1D4A5", "U+1D4A6", "U+1D4A9", "U+1D4AA", "U+1D4AB",
      "U+1D4AC", "U+1D4AE", "U+1D4AF", "U+1D4B0", "U+1D4B1", "U+1D4B2",
      "U+1D4B3", "U+1D4B4", "U+1D4B5", "U+1D4B6", "U+1D4B7", "U+1D4B8",
      "U+1D4B9", "U+1D4BB", "U+1D4BD", "U+1D4BE", "U+1D4BF", "U+1D4C0",
      "U+1D4C1", "U+1D4C2", "U+1D4C3", "U+1D4C5", "U+1D4C6", "U+1D4C7",
      "U+1D4C8", "U+1D4C9", "U+1D4CA", "U+1D4CB", "U+1D4CC", "U+1D4CD",
      "U+1D4CE", "U+1D4CF", "U+1D4D0", "U+1D4D1", "U+1D4D2", "U+1D4D3",
      "U+1D4D4", "U+1D4D5", "U+1D4D6", "U+1D4D7", "U+1D4D8", "U+1D4D9",
      "U+1D4DA", "U+1D4DB", "U+1D4DC", "U+1D4DD", "U+1D4DE", "U+1D4DF",
      "U+1D4E0", "U+1D4E1", "U+1D4E2", "U+1D4E3", "U+1D4E4", "U+1D4E5",
      "U+1D4E6", "U+1D4E7", "U+1D4E8", "U+1D4E9", "U+1D4EA", "U+1D4EB",
      "U+1D4EC", "U+1D4ED", "U+1D4EE", "U+1D4EF", "U+1D4F0", "U+1D4F1",
      "U+1D4F2", "U+1D4F3", "U+1D4F4", "U+1D4F5", "U+1D4F6", "U+1D4F7",
      "U+1D4F8", "U+1D4F9", "U+1D4FA", "U+1D4FB", "U+1D4FC", "U+1D4FD",
      "U+1D4FE", "U+1D4FF", "U+1D500", "U+1D501", "U+1D502", "U+1D503",
      "U+1D504", "U+1D505", "U+1D507", "U+1D508", "U+1D509", "U+1D50A",
      "U+1D50D", "U+1D50E", "U+1D50F", "U+1D510", "U+1D511", "U+1D512",
      "U+1D513", "U+1D514", "U+1D516", "U+1D517", "U+1D518", "U+1D519",
      "U+1D51A", "U+1D51B", "U+1D51C", "U+1D51E", "U+1D51F", "U+1D520",
      "U+1D521", "U+1D522", "U+1D523", "U+1D524", "U+1D525", "U+1D526",
      "U+1D527", "U+1D528", "U+1D529", "U+1D52A", "U+1D52B", "U+1D52C",
      "U+1D52D", "U+1D52E", "U+1D52F", "U+1D530", "U+1D531", "U+1D532",
      "U+1D533", "U+1D534", "U+1D535", "U+1D536", "U+1D537", "U+1D538",
      "U+1D539", "U+1D53B", "U+1D53C", "U+1D53D", "U+1D53E", "U+1D540",
      "U+1D541", "U+1D542", "U+1D543", "U+1D544", "U+1D546", "U+1D54A",
      "U+1D54B", "U+1D54C", "U+1D54D", "U+1D54E", "U+1D54F", "U+1D550",
      "U+1D552", "U+1D553", "U+1D554", "U+1D555", "U+1D556", "U+1D557",
      "U+1D558", "U+1D559", "U+1D55A", "U+1D55B", "U+1D55C", "U+1D55D",
      "U+1D55E", "U+1D55F", "U+1D560", "U+1D561", "U+1D562", "U+1D563",
      "U+1D564", "U+1D565", "U+1D566", "U+1D567", "U+1D568", "U+1D569",
      "U+1D56A", "U+1D56B", "U+1D56C", "U+1D56D", "U+1D56E", "U+1D56F",
      "U+1D570", "U+1D571", "U+1D572", "U+1D573", "U+1D574", "U+1D575",
      "U+1D576", "U+1D577", "U+1D578", "U+1D579", "U+1D57A", "U+1D57B",
      "U+1D57C", "U+1D57D", "U+1D57E", "U+1D57F", "U+1D580", "U+1D581",
      "U+1D582", "U+1D583", "U+1D584", "U+1D585", "U+1D586", "U+1D587",
      "U+1D588", "U+1D589", "U+1D58A", "U+1D58B", "U+1D58C", "U+1D58D",
      "U+1D58E", "U+1D58F", "U+1D590", "U+1D591", "U+1D592", "U+1D593",
      "U+1D594", "U+1D595", "U+1D596", "U+1D597", "U+1D598", "U+1D599",
      "U+1D59A", "U+1D59B", "U+1D59C", "U+1D59D", "U+1D59E", "U+1D59F",
      "U+1D5A0", "U+1D5A1", "U+1D5A2", "U+1D5A3", "U+1D5A4", "U+1D5A5",
      "U+1D5A6", "U+1D5A7", "U+1D5A8", "U+1D5A9", "U+1D5AA", "U+1D5AB",
      "U+1D5AC", "U+1D5AD", "U+1D5AE", "U+1D5AF", "U+1D5B0", "U+1D5B1",
      "U+1D5B2", "U+1D5B3", "U+1D5B4", "U+1D5B5", "U+1D5B6", "U+1D5B7",
      "U+1D5B8", "U+1D5B9", "U+1D5BA", "U+1D5BB", "U+1D5BC", "U+1D5BD",
      "U+1D5BE", "U+1D5BF", "U+1D5C0", "U+1D5C1", "U+1D5C2", "U+1D5C3",
      "U+1D5C4", "U+1D5C5", "U+1D5C6", "U+1D5C7", "U+1D5C8", "U+1D5C9",
      "U+1D5CA", "U+1D5CB", "U+1D5CC", "U+1D5CD", "U+1D5CE", "U+1D5CF",
      "U+1D5D0", "U+1D5D1", "U+1D5D2", "U+1D5D3", "U+1D5D4", "U+1D5D5",
      "U+1D5D6", "U+1D5D7", "U+1D5D8", "U+1D5D9", "U+1D5DA", "U+1D5DB",
      "U+1D5DC", "U+1D5DD", "U+1D5DE", "U+1D5DF", "U+1D5E0", "U+1D5E1",
      "U+1D5E2", "U+1D5E3", "U+1D5E4", "U+1D5E5", "U+1D5E6", "U+1D5E7",
      "U+1D5E8", "U+1D5E9", "U+1D5EA", "U+1D5EB", "U+1D5EC", "U+1D5ED",
      "U+1D5EE", "U+1D5EF", "U+1D5F0", "U+1D5F1", "U+1D5F2", "U+1D5F3",
      "U+1D5F4", "U+1D5F5", "U+1D5F6", "U+1D5F7", "U+1D5F8", "U+1D5F9",
      "U+1D5FA", "U+1D5FB", "U+1D5FC", "U+1D5FD", "U+1D5FE", "U+1D5FF",
      "U+1D600", "U+1D601", "U+1D602", "U+1D603", "U+1D604", "U+1D605",
      "U+1D606", "U+1D607", "U+1D608", "U+1D609", "U+1D60A", "U+1D60B",
      "U+1D60C", "U+1D60D", "U+1D60E", "U+1D60F", "U+1D610", "U+1D611",
      "U+1D612", "U+1D613", "U+1D614", "U+1D615", "U+1D616", "U+1D617",
      "U+1D618", "U+1D619", "U+1D61A", "U+1D61B", "U+1D61C", "U+1D61D",
      "U+1D61E", "U+1D61F", "U+1D620", "U+1D621", "U+1D622", "U+1D623",
      "U+1D624", "U+1D625", "U+1D626", "U+1D627", "U+1D628", "U+1D629",
      "U+1D62A", "U+1D62B", "U+1D62C", "U+1D62D", "U+1D62E", "U+1D62F",
      "U+1D630", "U+1D631", "U+1D632", "U+1D633", "U+1D634", "U+1D635",
      "U+1D636", "U+1D637", "U+1D638", "U+1D639", "U+1D63A", "U+1D63B",
      "U+1D63C", "U+1D63D", "U+1D63E", "U+1D63F", "U+1D640", "U+1D641",
      "U+1D642", "U+1D643", "U+1D644", "U+1D645", "U+1D646", "U+1D647",
      "U+1D648", "U+1D649", "U+1D64A", "U+1D64B", "U+1D64C", "U+1D64D",
      "U+1D64E", "U+1D64F", "U+1D650", "U+1D651", "U+1D652", "U+1D653",
      "U+1D654", "U+1D655", "U+1D656", "U+1D657", "U+1D658", "U+1D659",
      "U+1D65A", "U+1D65B", "U+1D65C", "U+1D65D", "U+1D65E", "U+1D65F",
      "U+1D660", "U+1D661", "U+1D662", "U+1D663", "U+1D664", "U+1D665",
      "U+1D666", "U+1D667", "U+1D668", "U+1D669", "U+1D66A", "U+1D66B",
      "U+1D66C", "U+1D66D", "U+1D66E", "U+1D66F", "U+1D670", "U+1D671",
      "U+1D672", "U+1D673", "U+1D674", "U+1D675", "U+1D676", "U+1D677",
      "U+1D678", "U+1D679", "U+1D67A", "U+1D67B", "U+1D67C", "U+1D67D",
      "U+1D67E", "U+1D67F", "U+1D680", "U+1D681", "U+1D682", "U+1D683",
      "U+1D684", "U+1D685", "U+1D686", "U+1D687", "U+1D688", "U+1D689",
      "U+1D68A", "U+1D68B", "U+1D68C", "U+1D68D", "U+1D68E", "U+1D68F",
      "U+1D690", "U+1D691", "U+1D692", "U+1D693", "U+1D694", "U+1D695",
      "U+1D696", "U+1D697", "U+1D698", "U+1D699", "U+1D69A", "U+1D69B",
      "U+1D69C", "U+1D69D", "U+1D69E", "U+1D69F", "U+1D6A0", "U+1D6A1",
      "U+1D6A2", "U+1D6A3", "U+1D6A4", "U+1D6A5", "U+1D6A8", "U+1D6A9",
      "U+1D6AA", "U+1D6AB", "U+1D6AC", "U+1D6AD", "U+1D6AE", "U+1D6AF",
      "U+1D6B0", "U+1D6B1", "U+1D6B2", "U+1D6B3", "U+1D6B4", "U+1D6B5",
      "U+1D6B6", "U+1D6B7", "U+1D6B8", "U+1D6B9", "U+1D6BA", "U+1D6BB",
      "U+1D6BC", "U+1D6BD", "U+1D6BE", "U+1D6BF", "U+1D6C0", "U+1D6C2",
      "U+1D6C3", "U+1D6C4", "U+1D6C5", "U+1D6C6", "U+1D6C7", "U+1D6C8",
      "U+1D6C9", "U+1D6CA", "U+1D6CB", "U+1D6CC", "U+1D6CD", "U+1D6CE",
      "U+1D6CF", "U+1D6D0", "U+1D6D1", "U+1D6D2", "U+1D6D3", "U+1D6D4",
      "U+1D6D5", "U+1D6D6", "U+1D6D7", "U+1D6D8", "U+1D6D9", "U+1D6DA",
      "U+1D6DC", "U+1D6DD", "U+1D6DE", "U+1D6DF", "U+1D6E0", "U+1D6E1",
      "U+1D6E2", "U+1D6E3", "U+1D6E4", "U+1D6E5", "U+1D6E6", "U+1D6E7",
      "U+1D6E8", "U+1D6E9", "U+1D6EA", "U+1D6EB", "U+1D6EC", "U+1D6ED",
      "U+1D6EE", "U+1D6EF", "U+1D6F0", "U+1D6F1", "U+1D6F2", "U+1D6F3",
      "U+1D6F4", "U+1D6F5", "U+1D6F6", "U+1D6F7", "U+1D6F8", "U+1D6F9",
      "U+1D6FA", "U+1D6FC", "U+1D6FD", "U+1D6FE", "U+1D6FF", "U+1D700",
      "U+1D701", "U+1D702", "U+1D703", "U+1D704", "U+1D705", "U+1D706",
      "U+1D707", "U+1D708", "U+1D709", "U+1D70A", "U+1D70B", "U+1D70C",
      "U+1D70D", "U+1D70E", "U+1D70F", "U+1D710", "U+1D711", "U+1D712",
      "U+1D713", "U+1D714", "U+1D716", "U+1D717", "U+1D718", "U+1D719",
      "U+1D71A", "U+1D71B", "U+1D71C", "U+1D71D", "U+1D71E", "U+1D71F",
      "U+1D720", "U+1D721", "U+1D722", "U+1D723", "U+1D724", "U+1D725",
      "U+1D726", "U+1D727", "U+1D728", "U+1D729", "U+1D72A", "U+1D72B",
      "U+1D72C", "U+1D72D", "U+1D72E", "U+1D72F", "U+1D730", "U+1D731",
      "U+1D732", "U+1D733", "U+1D734", "U+1D736", "U+1D737", "U+1D738",
      "U+1D739", "U+1D73A", "U+1D73B", "U+1D73C", "U+1D73D", "U+1D73E",
      "U+1D73F", "U+1D740", "U+1D741", "U+1D742", "U+1D743", "U+1D744",
      "U+1D745", "U+1D746", "U+1D747", "U+1D748", "U+1D749", "U+1D74A",
      "U+1D74B", "U+1D74C", "U+1D74D", "U+1D74E", "U+1D750", "U+1D751",
      "U+1D752", "U+1D753", "U+1D754", "U+1D755", "U+1D756", "U+1D757",
      "U+1D758", "U+1D759", "U+1D75A", "U+1D75B", "U+1D75C", "U+1D75D",
      "U+1D75E", "U+1D75F", "U+1D760", "U+1D761", "U+1D762", "U+1D763",
      "U+1D764", "U+1D765", "U+1D766", "U+1D767", "U+1D768", "U+1D769",
      "U+1D76A", "U+1D76B", "U+1D76C", "U+1D76D", "U+1D76E", "U+1D770",
      "U+1D771", "U+1D772", "U+1D773", "U+1D774", "U+1D775", "U+1D776",
      "U+1D777", "U+1D778", "U+1D779", "U+1D77A", "U+1D77B", "U+1D77C",
      "U+1D77D", "U+1D77E", "U+1D77F", "U+1D780", "U+1D781", "U+1D782",
      "U+1D783", "U+1D784", "U+1D785", "U+1D786", "U+1D787", "U+1D788",
      "U+1D78A", "U+1D78B", "U+1D78C", "U+1D78D", "U+1D78E", "U+1D78F",
      "U+1D790", "U+1D791", "U+1D792", "U+1D793", "U+1D794", "U+1D795",
      "U+1D796", "U+1D797", "U+1D798", "U+1D799", "U+1D79A", "U+1D79B",
      "U+1D79C", "U+1D79D", "U+1D79E", "U+1D79F", "U+1D7A0", "U+1D7A1",
      "U+1D7A2", "U+1D7A3", "U+1D7A4", "U+1D7A5", "U+1D7A6", "U+1D7A7",
      "U+1D7A8", "U+1D7AA", "U+1D7AB", "U+1D7AC", "U+1D7AD", "U+1D7AE",
      "U+1D7AF", "U+1D7B0", "U+1D7B1", "U+1D7B2", "U+1D7B3", "U+1D7B4",
      "U+1D7B5", "U+1D7B6", "U+1D7B7", "U+1D7B8", "U+1D7B9", "U+1D7BA",
      "U+1D7BB", "U+1D7BC", "U+1D7BD", "U+1D7BE", "U+1D7BF", "U+1D7C0",
      "U+1D7C1", "U+1D7C2", "U+1D7C4", "U+1D7C5", "U+1D7C6", "U+1D7C7",
      "U+1D7C8", "U+1D7C9", "U+1D7CA", "U+1D7CB", "U+1DF00", "U+1DF01",
      "U+1DF02", "U+1DF03", "U+1DF04", "U+1DF05", "U+1DF06", "U+1DF07",
      "U+1DF08", "U+1DF09", "U+1DF0B", "U+1DF0C", "U+1DF0D", "U+1DF0E",
      "U+1DF0F", "U+1DF10", "U+1DF11", "U+1DF12", "U+1DF13", "U+1DF14",
      "U+1DF15", "U+1DF16", "U+1DF17", "U+1DF18", "U+1DF19", "U+1DF1A",
      "U+1DF1B", "U+1DF1C", "U+1DF1D", "U+1DF1E", "U+1DF25", "U+1DF26",
      "U+1DF27", "U+1DF28", "U+1DF29", "U+1DF2A", "U+1E030", "U+1E031",
      "U+1E032", "U+1E033", "U+1E034", "U+1E035", "U+1E036", "U+1E037",
      "U+1E038", "U+1E039", "U+1E03A", "U+1E03B", "U+1E03C", "U+1E03D",
      "U+1E03E", "U+1E03F", "U+1E040", "U+1E041", "U+1E042", "U+1E043",
      "U+1E044", "U+1E045", "U+1E046", "U+1E047", "U+1E048", "U+1E049",
      "U+1E04A", "U+1E04B", "U+1E04C", "U+1E04D", "U+1E04E", "U+1E04F",
      "U+1E050", "U+1E051", "U+1E052", "U+1E053", "U+1E054", "U+1E055",
      "U+1E056", "U+1E057", "U+1E058", "U+1E059", "U+1E05A", "U+1E05B",
      "U+1E05C", "U+1E05D", "U+1E05E", "U+1E05F", "U+1E060", "U+1E061",
      "U+1E062", "U+1E063", "U+1E064", "U+1E065", "U+1E066", "U+1E067",
      "U+1E068", "U+1E069", "U+1E06A", "U+1E06B", "U+1E06C", "U+1E06D",
      "U+1E900", "U+1E901", "U+1E902", "U+1E903", "U+1E904", "U+1E905",
      "U+1E906", "U+1E907", "U+1E908", "U+1E909", "U+1E90A", "U+1E90B",
      "U+1E90C", "U+1E90D", "U+1E90E", "U+1E90F", "U+1E910", "U+1E911",
      "U+1E912", "U+1E913", "U+1E914", "U+1E915", "U+1E916", "U+1E917",
      "U+1E918", "U+1E919", "U+1E91A", "U+1E91B", "U+1E91C", "U+1E91D",
      "U+1E91E", "U+1E91F", "U+1E920", "U+1E921", "U+1E922", "U+1E923",
      "U+1E924", "U+1E925", "U+1E926", "U+1E927", "U+1E928", "U+1E929",
      "U+1E92A", "U+1E92B", "U+1E92C", "U+1E92D", "U+1E92E", "U+1E92F",
      "U+1E930", "U+1E931", "U+1E932", "U+1E933", "U+1E934", "U+1E935",
      "U+1E936", "U+1E937", "U+1E938", "U+1E939", "U+1E93A", "U+1E93B",
      "U+1E93C", "U+1E93D", "U+1E93E", "U+1E93F", "U+1E940", "U+1E941",
      "U+1E942", "U+1E943", "U+1F130", "U+1F131", "U+1F132", "U+1F133",
      "U+1F134", "U+1F135", "U+1F136", "U+1F137", "U+1F138", "U+1F139",
      "U+1F13A", "U+1F13B", "U+1F13C", "U+1F13D", "U+1F13E", "U+1F13F",
      "U+1F140", "U+1F141", "U+1F142", "U+1F143", "U+1F144", "U+1F145",
      "U+1F146", "U+1F147", "U+1F148", "U+1F149", "U+1F150", "U+1F151",
      "U+1F152", "U+1F153", "U+1F154", "U+1F155", "U+1F156", "U+1F157",
      "U+1F158", "U+1F159", "U+1F15A", "U+1F15B", "U+1F15C", "U+1F15D",
      "U+1F15E", "U+1F15F", "U+1F160", "U+1F161", "U+1F162", "U+1F163",
      "U+1F164", "U+1F165", "U+1F166", "U+1F167", "U+1F168", "U+1F169",
      "U+1F170", "U+1F171", "U+1F172", "U+1F173", "U+1F174", "U+1F175",
      "U+1F176", "U+1F177", "U+1F178", "U+1F179", "U+1F17A", "U+1F17B",
      "U+1F17C", "U+1F17D", "U+1F17E", "U+1F17F", "U+1F180", "U+1F181",
      "U+1F182", "U+1F183", "U+1F184", "U+1F185", "U+1F186", "U+1F187",
      "U+1F188", "U+1F189" }

\* The characters with the property Case_Ignorable.
CaseIgnorable ==
    { "'", ".", ":", "^", "U+0060", "¨", "U+00AD", "¯", "´", "·", "¸", "ʰ",
      "ʱ", "ʲ", "ʳ", "ʴ", "ʵ", "ʶ", "ʷ", "ʸ", "ʹ", "ʺ", "ʻ", "ʼ", "ʽ", "ʾ",
      "ʿ", "ˀ", "ˁ", "˂", "˃", "˄", "˅", "ˆ", "ˇ", "ˈ", "ˉ", "ˊ", "ˋ", "ˌ",
      "ˍ", "ˎ", "ˏ", "ː", "ˑ", "˒", "˓", "˔", "˕", "˖", "˗", "˘", "˙", "˚",
      "˛", "˜", "˝", "˞", "˟", "ˠ", "ˡ", "ˢ", "ˣ", "ˤ", "˥", "˦", "˧", "˨",
      "˩", "˪", "˫", "ˬ", "˭", "ˮ", "˯", "˰", "˱", "˲", "˳", "˴", "˵", "˶",
      "˷", "˸", "˹", "˺", "˻", "˼", "˽", "˾", "˿", "U+0300", "U+0301",
      "U+0302", "U+0303", "U+0304", "U+0305", "U+0306", "U+0307", "U+0308",
      "U+0309", "U+030A", "U+030B", "U+030C", "U+030D", "U+030E", "U+030F",
      "U+0310", "U+0311", "U+0312", "U+0313", "U+0314", "U+0315", "U+0316",
      "U+0317", "U+0318", "U+0319", "U+031A", "U+031B", "U+031C", "U+031D",
      "U+031E", "U+031F", "U+0320", "U+0321", "U+0322", "U+0323", "U+0324",
      "U+0325", "U+0326", "U+0327", "U+0328", "U+0329", "U+032A", "U+032B",
      "U+032C", "U+032D", "U+032E", "U+032F", "U+0330", "U+0331", "U+0332",
      "U+0333", "U+0334", "U+0335", "U+0336", "U+0337", "U+0338", "U+0339",
      "U+033A", "U+033B", "U+033C", "U+033D", "U+033E", "U+033F", "U+0340",
      "U+0341", "U+0342", "U+0343", "U+0344", "U+0345", "U+0346", "U+0347",
      "U+0348", "U+0349", "U+034A", "U+034B", "U+034C", "U+034D", "U+034E",
      "U+034F", "U+0350", "U+0351", "U+0352", "U+0353", "U+0354", "U+0355",
      "U+0356", "U+0357", "U+0358", "U+0359", "U+035A", "U+035B", "U+035C",
      "U+035D", "U+035E", "U+035F", "U+0360", "U+0361", "U+0362", "U+0363",
      "U+0364", "U+0365", "U+0366", "U+0367", "U+0368", "U+0369", "U+036A",
      "U+036B", "U+036C", "U+036D", "U+036E", "U+036F", "U+0374", "U+0375",
      "U+037A", "΄", "΅", "·", "U+0483", "U+0484", "U+0485", "U+0486",
      "U+0487", "U+0488", "U+0489", "U+0559", "U+055F", "U+0591", "U+0592",
      "U+0593", "U+0594", "U+0595", "U+0596", "U+0597", "U+0598", "U+0599",
      "U+059A", "U+059B", "U+059C", "U+059D", "U+059E", "U+059F", "U+05A0",
      "U+05A1", "U+05A2", "U+05A3", "U+05A4", "U+05A5", "U+05A6", "U+05A7",
      "U+05A8", "U+05A9", "U+05AA", "U+05AB", "U+05AC", "U+05AD", "U+05AE",
      "U+05AF", "U+05B0", "U+05B1", "U+05B2", "U+05B3", "U+05B4", "U+05B5",
      "U+05B6", "U+05B7", "U+05B8", "U+05B9", "U+05BA", "U+05BB", "U+05BC",
      "U+05BD", "U+05BF", "U+05C1", "U+05C2", "U+05C4", "U+05C5", "U+05C7",
      "״", "U+0600", "U+0601", "U+0602", "U+0603", "U+0604", "U+0605",
      "U+0610", "U+0611", "U+0612", "U+0613", "U+0614", "U+0615", "U+0616",
      "U+0617", "U+0618", "U+0619", "U+061A", "U+061C", "U+0640", "U+064B",
      "U+064C", "U+064D", "U+064E", "U+064F", "U+0650", "U+0651", "U+0652",
      "U+0653", "U+0654", "U+0655", "U+0656", "U+0657", "U+0658", "U+0659",
      "U+065A", "U+065B", "U+065C", "U+065D", "U+065E", "U+065F", "U+0670",
      "U+06D6", "U+06D7", "U+06D8", "U+06D9", "U+06DA", "U+06DB", "U+06DC",
      "U+06DD", "U+06DF", "U+06E0", "U+06E1", "U+06E2", "U+06E3", "U+06E4",
      "ۥ", "ۦ", "U+06E7", "U+06E8", "U+06EA", "U+06EB", "U+06EC", "U+06ED",
      "U+070F", "U+0711", "U+0730", "U+0731", "U+0732", "U+0733", "U+0734",
      "U+0735", "U+0736", "U+0737", "U+0738", "U+0739", "U+073A", "U+073B",
      "U+073C", "U+073D", "U+073E", "U+073F", "U+0740", "U+0741", "U+0742",
      "U+0743", "U+0744", "U+0745", "U+0746", "U+0747", "U+0748", "U+0749",
      "U+074A", "U+07A6", "U+07A7", "U+07A8", "U+07A9", "U+07AA", "U+07AB",
      "U+07AC", "U+07AD", "U+07AE", "U+07AF", "U+07B0", "U+07EB", "U+07EC",
      "U+07ED", "U+07EE", "U+07EF", "U+07F0", "U+07F1", "U+07F2", "U+07F3",
      "ߴ", "ߵ", "ߺ", "U+07FD", "U+0816", "U+0817", "U+0818", "U+0819",
      "U+081A", "U+081B", "U+081C", "U+081D", "U+081E", "U+081F", "U+0820",
      "U+0821", "U+0822", "U+0823", "U+0824", "U+0825", "U+0826", "U+0827",
      "U+0828", "U+0829", "U+082A", "U+082B", "U+082C", "U+082D", "U+0859",
      "U+085A", "U+085B", "࢈", "U+0890", "U+0891", "U+0897", "U+0898",
      "U+0899", "U+089A", "U+089B", "U+089C", "U+089D", "U+089E", "U+089F",
      "ࣉ", "U+08CA", "U+08CB", "U+08CC", "U+08CD", "U+08CE", "U+08CF",
      "U+08D0", "U+08D1", "U+08D2", "U+08D3", "U+08D4", "U+08D5", "U+08D6",
      "U+08D7", "U+08D8", "U+08D9", "U+08DA", "U+08DB", "U+08DC", "U+08DD",
      "U+08DE", "U+08DF", "U+08E0", "U+08E1", "U+08E2", "U+08E3", "U+08E4",
      "U+08E5", "U+08E6", "U+08E7", "U+08E8", "U+08E9", "U+08EA", "U+08EB",
      "U+08EC", "U+08ED", "U+08EE", "U+08EF", "U+08F0", "U+08F1", "U+08F2",
      "U+08F3", "U+08F4", "U+08F5", "U+08F6", "U+08F7", "U+08F8", "U+08F9",
      "U+08FA", "U+08FB", "U+08FC", "U+08FD", "U+08FE", "U+08FF", "U+0900",
      "U+0901", "U+0902", "U+093A", "U+093C", "U+0941", "U+0942", "U+0943",
      "U+0944", "U+0945", "U+0946", "U+0947", "U+0948", "U+094D", "U+0951",
      "U+0952", "U+0953", "U+0954", "U+0955", "U+0956", "U+0957", "U+0962",
      "U+0963", "U+0971", "U+0981", "U+09BC", "U+09C1", "U+09C2", "U+09C3",
      "U+09C4", "U+09CD", "U+09E2", "U+09E3", "U+09FE", "U+0A01", "U+0A02",
      "U+0A3C", "U+0A41", "U+0A42", "U+0A47", "U+0A48", "U+0A4B", "U+0A4C",
      "U+0A4D", "U+0A51", "U+0A70", "U+0A71", "U+0A75", "U+0A81", "U+0A82",
      "U+0ABC", "U+0AC1", "U+0AC2", "U+0AC3", "U+0AC4", "U+0AC5", "U+0AC7",
      "U+0AC8", "U+0ACD", "U+0AE2", "U+0AE3", "U+0AFA", "U+0AFB", "U+0AFC",
      "U+0AFD", "U+0AFE", "U+0AFF", "U+0B01", "U+0B3C", "U+0B3F", "U+0B41",
      "U+0B42", "U+0B43", "U+0B44", "U+0B4D", "U+0B55", "U+0B56", "U+0B62",
      "U+0B63", "U+0B82", "U+0BC0", "U+0BCD", "U+0C00", "U+0C04", "U+0C3C",
      "U+0C3E", "U+0C3F", "U+0C40", "U+0C46", "U+0C47", "U+0C48", "U+0C4A",
      "U+0C4B", "U+0C4C", "U+0C4D", "U+0C55", "U+0C56", "U+0C62", "U+0C63",
      "U+0C81", "U+0CBC", "U+0CBF", "U+0CC6", "U+0CCC", "U+0CCD", "U+0CE2",
      "U+0CE3", "U+0D00", "U+0D01", "U+0D3B", "U+0D3C", "U+0D41", "U+0D42",
      "U+0D43", "U+0D44", "U+0D4D", "U+0D62", "U+0D63", "U+0D81", "U+0DCA",
      "U+0DD2", "U+0DD3", "U+0DD4", "U+0DD6", "U+0E31", "U+0E34", "U+0E35",
      "U+0E36", "U+0E37", "U+0E38", "U+0E39", "U+0E3A", "U+0E46", "U+0E47",
      "U+0E48", "U+0E49", "U+0E4A", "U+0E4B", "U+0E4C", "U+0E4D", "U+0E4E",
      "U+0EB1", "U+0EB4", "U+0EB5", "U+0EB6", "U+0EB7", "U+0EB8", "U+0EB9",
      "U+0EBA", "U+0EBB", "U+0EBC", "ໆ", "U+0EC8", "U+0EC9", "U+0ECA",
      "U+0ECB", "U+0ECC", "U+0ECD", "U+0ECE", "U+0F18", "U+0F19", "U+0F35",
      "U+0F37", "U+0F39", "U+0F71", "U+0F72", "U+0F73", "U+0F74", "U+0F75",
      "U+0F76", "U+0F77", "U+0F78", "U+0F79", "U+0F7A", "U+0F7B", "U+0F7C",
      "U+0F7D", "U+0F7E", "U+0F80", "U+0F81", "U+0F82", "U+0F83", "U+0F84",
      "U+0F86", "U+0F87", "U+0F8D", "U+0F8E", "U+0F8F", "U+0F90", "U+0F91",
      "U+0F92", "U+0F93", "U+0F94", "U+0F95", "U+0F96", "U+0F97", "U+0F99",
      "U+0F9A", "U+0F9B", "U+0F9C", "U+0F9D", "U+0F9E", "U+0F9F", "U+0FA0",
      "U+0FA1", "U+0FA2", "U+0FA3", "U+0FA4", "U+0FA5", "U+0FA6", "U+0FA7",
      "U+0FA8", "U+0FA9", "U+0FAA", "U+0FAB", "U+0FAC", "U+0FAD", "U+0FAE",
      "U+0FAF", "U+0FB0", "U+0FB1", "U+0FB2", "U+0FB3", "U+0FB4", "U+0FB5",
      "U+0FB6", "U+0FB7", "U+0FB8", "U+0FB9", "U+0FBA", "U+0FBB", "U+0FBC",
      "U+0FC6", "U+102D", "U+102E", "U+102F", "U+1030", "U+1032", "U+1033",
      "U+1034", "U+1035", "U+1036", "U+1037", "U+1039", "U+103A", "U+103D",
      "U+103E", "U+1058", "U+1059", "U+105E", "U+105F", "U+1060", "U+1071",
      "U+1072", "U+1073", "U+1074", "U+1082", "U+1085", "U+1086", "U+108D",
      "U+109D", "ჼ", "U+135D", "U+135E", "U+135F", "U+1712", "U+1713",
      "U+1714", "U+1732", "U+1733", "U+1752", "U+1753", "U+1772", "U+1773",
      "U+17B4", "U+17B5", "U+17B7", "U+17B8", "U+17B9", "U+17BA", "U+17BB",
      "U+17BC", "U+17BD", "U+17C6", "U+17C9", "U+17CA", "U+17CB", "U+17CC",
      "U+17CD", "U+17CE", "U+17CF", "U+17D0", "U+17D1", "U+17D2", "U+17D3",
      "ៗ", "U+17DD", "U+180B", "U+180C", "U+180D", "U+180E", "U+180F",
      "U+1843", "U+1885", "U+1886", "U+18A9", "U+1920", "U+1921", "U+1922",
      "U+1927", "U+1928", "U+1932", "U+1939", "U+193A", "U+193B", "U+1A17",
      "U+1A18", "U+1A1B", "U+1A56", "U+1A58", "U+1A59", "U+1A5A", "U+1A5B",
      "U+1A5C", "U+1A5D", "U+1A5E", "U+1A60", "U+1A62", "U+1A65", "U+1A66",
      "U+1A67", "U+1A68", "U+1A69", "U+1A6A", "U+1A6B", "U+1A6C", "U+1A73",
      "U+1A74", "U+1A75", "U+1A76", "U+1A77", "U+1A78", "U+1A79", "U+1A7A",
      "U+1A7B", "U+1A7C", "U+1A7F", "ᪧ", "U+1AB0", "U+1AB1", "U+1AB2",
      "U+1AB3", "U+1AB4", "U+1AB5", "U+1AB6", "U+1AB7", "U+1AB8", "U+1AB9",
      "U+1ABA", "U+1ABB", "U+1ABC", "U+1ABD", "U+1ABE", "U+1ABF", "U+1AC0",
      "U+1AC1", "U+1AC2", "U+1AC3", "U+1AC4", "U+1AC5", "U+1AC6", "U+1AC7",
      "U+1AC8", "U+1AC9", "U+1ACA", "U+1ACB", "U+1ACC", "U+1ACD", "U+1ACE",
      "U+1ACF", "U+1AD0", "U+1AD1", "U+1AD2", "U+1AD3", "U+1AD4", "U+1AD5",
      "U+1AD6", "U+1AD7", "U+1AD8", "U+1AD9", "U+1ADA", "U+1ADB", "U+1ADC",
      "U+1ADD", "U+1AE0", "U+1AE1", "U+1AE2", "U+1AE3", "U+1AE4", "U+1AE5",
      "U+1AE6", "U+1AE7", "U+1AE8", "U+1AE9", "U+1AEA", "U+1AEB", "U+1B00",
      "U+1B01", "U+1B02", "U+1B03", "U+1B34", "U+1B36", "U+1B37", "U+1B38",
      "U+1B39", "U+1B3A", "U+1B3C", "U+1B42", "U+1B6B", "U+1B6C", "U+1B6D",
      "U+1B6E", "U+1B6F", "U+1B70", "U+1B71", "U+1B72", "U+1B73", "U+1B80",
      "U+1B81", "U+1BA2", "U+1BA3", "U+1BA4", "U+1BA5", "U+1BA8", "U+1BA9",
      "U+1BAB", "U+1BAC", "U+1BAD", "U+1BE6", "U+1BE8", "U+1BE9", "U+1BED",
      "U+1BEF", "U+1BF0", "U+1BF1", "U+1C2C", "U+1C2D", "U+1C2E", "U+1C2F",
      "U+1C30", "U+1C31", "U+1C32", "U+1C33", "U+1C36", "U+1C37", "U+1C78",
      "U+1C79", "U+1C7A", "U+1C7B", "U+1C7C", "U+1C7D", "U+1CD0", "U+1CD1",
      "U+1CD2", "U+1CD4", "U+1CD5", "U+1CD6", "U+1CD7", "U+1CD8", "U+1CD9",
      "U+1CDA", "U+1CDB", "U+1CDC", "U+1CDD", "U+1CDE", "U+1CDF", "U+1CE0",
      "U+1CE2", "U+1CE3", "U+1CE4", "U+1CE5", "U+1CE6", "U+1CE7", "U+1CE8",
      "U+1CED", "U+1CF4", "U+1CF8", "U+1CF9", "U+1D2C", "U+1D2D", "U+1D2E",
      "U+1D2F", "U+1D30", "U+1D31", "U+1D32", "U+1D33", "U+1D34", "U+1D35",
      "U+1D36", "U+1D37", "U+1D38", "U+1D39", "U+1D3A", "U+1D3B", "U+1D3C",
      "U+1D3D", "U+1D3E", "U+1D3F", "U+1D40", "U+1D41", "U+1D42", "U+1D43",
      "U+1D44", "U+1D45", "U+1D46", "U+1D47", "U+1D48", "U+1D49", "U+1D4A",
      "U+1D4B", "U+1D4C", "U+1D4D", "U+1D4E", "U+1D4F", "U+1D50", "U+1D51",
      "U+1D52", "U+1D53", "U+1D54", "U+1D55", "U+1D56", "U+1D57", "U+1D58",
      "U+1D59", "U+1D5A", "U+1D5B", "U+1D5C", "U+1D5D", "U+1D5E", "U+1D5F",
      "U+1D60", "U+1D61", "U+1D62", "U+1D63", "U+1D64", "U+1D65", "U+1D66",
      "U+1D67", "U+1D68", "U+1D69", "U+1D6A", "U+1D78", "ᶛ", "ᶜ", "ᶝ", "ᶞ",
      "ᶟ", "ᶠ", "ᶡ", "ᶢ", "ᶣ", "ᶤ", "ᶥ", "ᶦ", "ᶧ", "ᶨ", "ᶩ", "ᶪ", "ᶫ", "ᶬ",
      "ᶭ", "ᶮ", "ᶯ", "ᶰ", "ᶱ", "ᶲ", "ᶳ", "ᶴ", "ᶵ", "ᶶ", "ᶷ", "ᶸ", "ᶹ", "ᶺ",
      "ᶻ", "ᶼ", "ᶽ", "ᶾ", "ᶿ", "U+1DC0", "U+1DC1", "U+1DC2", "U+1DC3",
      "U+1DC4", "U+1DC5", "U+1DC6", "U+1DC7", "U+1DC8", "U+1DC9", "U+1DCA",
      "U+1DCB", "U+1DCC", "U+1DCD", "U+1DCE", "U+1DCF", "U+1DD0", "U+1DD1",
      "U+1DD2", "U+1DD3", "U+1DD4", "U+1DD5", "U+1DD6", "U+1DD7", "U+1DD8",
      "U+1DD9", "U+1DDA", "U+1DDB", "U+1DDC", "U+1DDD", "U+1DDE", "U+1DDF",
      "U+1DE0", "U+1DE1", "U+1DE2", "U+1DE3", "U+1DE4", "U+1DE5", "U+1DE6",
      "U+1DE7", "U+1DE8", "U+1DE9", "U+1DEA", "U+1DEB", "U+1DEC", "U+1DED",
      "U+1DEE", "U+1DEF", "U+1DF0", "U+1DF1", "U+1DF2", "U+1DF3", "U+1DF4",
      "U+1DF5", "U+1DF6", "U+1DF7", "U+1DF8", "U+1DF9", "U+1DFA", "U+1DFB",
      "U+1DFC", "U+1DFD", "U+1DFE", "U+1DFF", "᾽", "᾿", "῀", "῁", "῍", "῎",
      "῏", "῝", "῞", "῟", "῭", "΅", "`", "´", "῾", "U+200B", "U+200C",
      "U+200D", "U+200E", "U+200F", "U+2018", "U+2019", "U+2024", "U+2027",
      "U+202A", "U+202B", "U+202C", "U+202D", "U+202E", "U+2060", "U+2061",
      "U+2062", "U+2063", "U+2064", "U+2066", "U+2067", "U+2068", "U+2069",
      "U+206A", "U+206B", "U+206C", "U+206D", "U+206E", "U+206F", "U+2071",
      "U+207F", "ₐ", "ₑ", "ₒ", "ₓ", "ₔ", "ₕ", "ₖ", "ₗ", "ₘ", "ₙ", "ₚ", "ₛ",
      "ₜ", "U+20D0", "U+20D1", "U+20D2", "U+20D3", "U+20D4", "U+20D5",
      "U+20D6", "U+20D7", "U+20D8", "U+20D9", "U+20DA", "U+20DB", "U+20DC",
      "U+20DD", "U+20DE", "U+20DF", "U+20E0", "U+20E1", "U+20E2", "U+20E3",
      "U+20E4", "U+20E5", "U+20E6", "U+20E7", "U+20E8", "U+20E9", "U+20EA",
      "U+20EB", "U+20EC", "U+20ED", "U+20EE", "U+20EF", "U+20F0", "U+2C7C",
      "U+2C7D", "U+2CEF", "U+2CF0", "U+2CF1", "U+2D6F", "U+2D7F", "U+2DE0",
      "U+2DE1", "U+2DE2", "U+2DE3", "U+2DE4", "U+2DE5", "U+2DE6", "U+2DE7",
      "U+2DE8", "U+2DE9", "U+2DEA", "U+2DEB", "U+2DEC", "U+2DED", "U+2DEE",
      "U+2DEF", "U+2DF0", "U+2DF1", "U+2DF2", "U+2DF3", "U+2DF4", "U+2DF5",
      "U+2DF6", "U+2DF7", "U+2DF8", "U+2DF9", "U+2DFA", "U+2DFB", "U+2DFC",
      "U+2DFD", "U+2DFE", "U+2DFF", "U+2E2F", "U+3005", "U+302A", "U+302B",
      "U+302C", "U+302D", "U+3031", "U+3032", "U+3033", "U+3034", "U+3035",
      "U+303B", "U+3099", "U+309A", "゛", "゜", "ゝ", "ゞ", "ー", "ヽ", "ヾ",
      "U+A015", "ꓸ", "ꓹ", "ꓺ", "ꓻ", "ꓼ", "ꓽ", "U+A60C", "U+A66F", "U+A670",
      "U+A671", "U+A672", "U+A674", "U+A675", "U+A676", "U+A677", "U+A678",
      "U+A679", "U+A67A", "U+A67B", "U+A67C", "U+A67D", "U+A67F", "ꚜ", "ꚝ",
      "U+A69E", "U+A69F", "U+A6F0", "U+A6F1", "U+A700", "U+A701", "U+A702",
      "U+A703", "U+A704", "U+A705", "U+A706", "U+A707", "U+A708", "U+A709",
      "U+A70A", "U+A70B", "U+A70C", "U+A70D", "U+A70E", "U+A70F", "U+A710",
      "U+A711", "U+A712", "U+A713", "U+A714", "U+A715", "U+A716", "U+A717",
      "U+A718", "U+A719", "U+A71A", "U+A71B", "U+A71C", "U+A71D", "U+A71E",
      "U+A71F", "U+A720", "U+A721", "U+A770", "ꞈ", "꞉", "꞊", "꟱", "ꟲ", "ꟳ",
      "ꟴ", "ꟸ", "ꟹ", "U+A802", "U+A806", "U+A80B", "U+A825", "U+A826",
      "U+A82C", "U+A8C4", "U+A8C5", "U+A8E0", "U+A8E1", "U+A8E2", "U+A8E3",
      "U+A8E4", "U+A8E5", "U+A8E6", "U+A8E7", "U+A8E8", "U+A8E9", "U+A8EA",
      "U+A8EB", "U+A8EC", "U+A8ED", "U+A8EE", "U+A8EF", "U+A8F0", "U+A8F1",
      "U+A8FF", "U+A926", "U+A927", "U+A928", "U+A929", "U+A92A", "U+A92B",
      "U+A92C", "U+A92D", "U+A947", "U+A948", "U+A949", "U+A94A", "U+A94B",
      "U+A94C", "U+A94D", "U+A94E", "U+A94F", "U+A950", "U+A951", "U+A980",
      "U+A981", "U+A982", "U+A9B3", "U+A9B6", "U+A9B7", "U+A9B8", "U+A9B9",
      "U+A9BC", "U+A9BD", "ꧏ", "U+A9E5", "ꧦ", "U+AA29", "U+AA2A", "U+AA2B",
      "U+AA2C", "U+AA2D", "U+AA2E", "U+AA31", "U+AA32", "U+AA35", "U+AA36",
      "U+AA43", "U+AA4C", "U+AA70", "U+AA7C", "U+AAB0", "U+AAB2", "U+AAB3",
      "U+AAB4", "U+AAB7", "U+AAB8", "U+AABE", "U+AABF", "U+AAC1", "ꫝ",
      "U+AAEC", "U+AAED", "ꫳ", "ꫴ", "U+AAF6", "U+AB5B", "U+AB5C", "U+AB5D",
      "U+AB5E", "U+AB5F", "U+AB69", "U+AB6A", "U+AB6B", "U+ABE5", "U+ABE8",
      "U+ABED", "U+FB1E", "﮲", "﮳", "﮴", "﮵", "﮶", "﮷", "﮸", "﮹", "﮺", "﮻",
      "﮼", "﮽", "﮾", "﮿", "﯀", "﯁", "﯂", "U+FE00", "U+FE01", "U+FE02",
      "U+FE03", "U+FE04", "U+FE05", "U+FE06", "U+FE07", "U+FE08", "U+FE09",
      "U+FE0A", "U+FE0B", "U+FE0C", "U+FE0D", "U+FE0E", "U+FE0F", "U+FE13",
      "U+FE20", "U+FE21", "U+FE22", "U+FE23", "U+FE24", "U+FE25", "U+FE26",
      "U+FE27", "U+FE28", "U+FE29", "U+FE2A", "U+FE2B", "U+FE2C", "U+FE2D",
      "U+FE2E", "U+FE2F", "U+FE52", "U+FE55", "U+FEFF", "U+FF07", "U+FF0E",
      "U+FF1A", "U+FF3E", "U+FF40", "U+FF70", "ﾞ", "ﾟ", "￣", "U+FFF9",
      "U+FFFA", "U+FFFB", "U+101FD", "U+102E0", "U+10376", "U+10377",
      "U+10378", "U+10379", "U+1037A", "U+10780", "U+10781", "U+10782",
      "U+10783", "U+10784", "U+10785", "U+10787", "U+10788", "U+10789",
      "U+1078A", "U+1078B", "U+1078C", "U+1078D", "U+1078E", "U+1078F",
      "U+10790", "U+10791", "U+10792", "U+10793", "U+10794", "U+10795",
      "U+10796", "U+10797", "U+10798", "U+10799", "U+1079A", "U+1079B",
      "U+1079C", "U+1079D", "U+1079E", "U+1079F", "U+107A0", "U+107A1",
      "U+107A2", "U+107A3", "U+107A4", "U+107A5", "U+107A6", "U+107A7",
      "U+107A8", "U+107A9", "U+107AA", "U+107AB", "U+107AC", "U+107AD",
      "U+107AE", "U+107AF", "U+107B0", "U+107B2", "U+107B3", "U+107B4",
      "U+107B5", "U+107B6", "U+107B7", "U+107B8", "U+107B9", "U+107BA",
      "U+10A01", "U+10A02", "U+10A03", "U+10A05", "U+10A06", "U+10A0C",
      "U+10A0D", "U+10A0E", "U+10A0F", "U+10A38", "U+10A39", "U+10A3A",
      "U+10A3F", "U+10AE5", "U+10AE6", "U+10D24", "U+10D25", "U+10D26",
      "U+10D27", "U+10D4E", "U+10D69", "U+10D6A", "U+10D6B", "U+10D6C",
      "U+10D6D", "U+10D6F", "U+10EAB", "U+10EAC", "U+10EC5", "U+10EFA",
      "U+10EFB", "U+10EFC", "U+10EFD", "U+10EFE", "U+10EFF", "U+10F46",
      "U+10F47", "U+10F48", "U+10F49", "U+10F4A", "U+10F4B", "U+10F4C",
      "U+10F4D", "U+10F4E", "U+10F4F", "U+10F50", "U+10F82", "U+10F83",
      "U+10F84", "U+10F85", "U+11001", "U+11038", "U+11039", "U+1103A",
      "U+1103B", "U+1103C", "U+1103D", "U+1103E", "U+1103F", "U+11040",
      "U+11041", "U+11042", "U+11043", "U+11044", "U+11045", "U+11046",
      "U+11070", "U+11073", "U+11074", "U+1107F", "U+11080", "U+11081",
      "U+110B3", "U+110B4", "U+110B5", "U+110B6", "U+110B9", "U+110BA",
      "U+110BD", "U+110C2", "U+110CD", "U+11100", "U+11101", "U+11102",
      "U+11127", "U+11128", "U+11129", "U+1112A", "U+1112B", "U+1112D",
      "U+1112E", "U+1112F", "U+11130", "U+11131", "U+11132", "U+11133",
      "U+11134", "U+11173", "U+11180", "U+11181", "U+111B6", "U+111B7",
      "U+111B8", "U+111B9", "U+111BA", "U+111BB", "U+111BC", "U+111BD",
      "U+111BE", "U+111C9", "U+111CA", "U+111CB", "U+111CC", "U+111CF",
      "U+1122F", "U+11230", "U+11231", "U+11234", "U+11236", "U+11237",
      "U+1123E", "U+11241", "U+112DF", "U+112E3", "U+112E4", "U+112E5",
      "U+112E6", "U+112E7", "U+112E8", "U+112E9", "U+112EA", "U+11300",
      "U+11301", "U+1133B", "U+1133C", "U+11340", "U+11366", "U+11367",
      "U+11368", "U+11369", "U+1136A", "U+1136B", "U+1136C", "U+11370",
      "U+11371", "U+11372", "U+11373", "U+11374", "U+113BB", "U+113BC",
      "U+113BD", "U+113BE", "U+113BF", "U+113C0", "U+113CE", "U+113D0",
      "U+113D2", "U+113E1", "U+113E2", "U+11438", "U+11439", "U+1143A",
      "U+1143B", "U+1143C", "U+1143D", "U+1143E", "U+1143F", "U+11442",
      "U+11443", "U+11444", "U+11446", "U+1145E", "U+114B3", "U+114B4",
      "U+114B5", "U+114B6", "U+114B7", "U+114B8", "U+114BA", "U+114BF",
      "U+114C0", "U+114C2", "U+114C3", "U+115B2", "U+115B3", "U+115B4",
      "U+115B5", "U+115BC", "U+115BD", "U+115BF", "U+115C0", "U+115DC",
      "U+115DD", "U+11633", "U+11634", "U+11635", "U+11636", "U+11637",
      "U+11638", "U+11639", "U+1163A", "U+1163D", "U+1163F", "U+11640",
      "U+116AB", "U+116AD", "U+116B0", "U+116B1", "U+116B2", "U+116B3",
      "U+116B4", "U+116B5", "U+116B7", "U+1171D", "U+1171F", "U+11722",
      "U+11723", "U+11724", "U+11725", "U+11727", "U+11728", "U+11729",
      "U+1172A", "U+1172B", "U+1182F", "U+11830", "U+11831", "U+11832",
      "U+11833", "U+11834", "U+11835", "U+11836", "U+11837", "U+11839",
      "U+1183A", "U+1193B", "U+1193C", "U+1193E", "U+11943", "U+119D4",
      "U+119D5", "U+119D6", "U+119D7", "U+119DA", "U+119DB", "U+119E0",
      "U+11A01", "U+11A02", "U+11A03", "U+11A04", "U+11A05", "U+11A06",
      "U+11A07", "U+11A08", "U+11A09", "U+11A0A", "U+11A33", "U+11A34",
      "U+11A35", "U+11A36", "U+11A37", "U+11A38", "U+11A3B", "U+11A3C",
      "U+11A3D", "U+11A3E", "U+11A47", "U+11A51", "U+11A52", "U+11A53",
      "U+11A54", "U+11A55", "U+11A56", "U+11A59", "U+11A5A", "U+11A5B",
      "U+11A8A", "U+11A8B", "U+11A8C", "U+11A8D", "U+11A8E", "U+11A8F",
      "U+11A90", "U+11A91", "U+11A92", "U+11A93", "U+11A94", "U+11A95",
      "U+11A96", "U+11A98", "U+11A99", "U+11B60", "U+11B62", "U+11B63",
      "U+11B64", "U+11B66", "U+11C30", "U+11C31", "U+11C32", "U+11C33",
      "U+11C34", "U+11C35", "U+11C36", "U+11C38", "U+11C39", "U+11C3A",
      "U+11C3B", "U+11C3C", "U+11C3D", "U+11C3F", "U+11C92", "U+11C93",
      "U+11C94", "U+11C95", "U+11C96", "U+11C97", "U+11C98", "U+11C99",
      "U+11C9A", "U+11C9B", "U+11C9C", "U+11C9D", "U+11C9E", "U+11C9F",
      "U+11CA0", "U+11CA1", "U+11CA2", "U+11CA3", "U+11CA4", "U+11CA5",
      "U+11CA6", "U+11CA7", "U+11CAA", "U+11CAB", "U+11CAC", "U+11CAD",
      "U+11CAE", "U+11CAF", "U+11CB0", "U+11CB2", "U+11CB3", "U+11CB5",
      "U+11CB6", "U+11D31", "U+11D32", "U+11D33", "U+11D34", "U+11D35",
      "U+11D36", "U+11D3A", "U+11D3C", "U+11D3D", "U+11D3F", "U+11D40",
      "U+11D41", "U+11D42", "U+11D43", "U+11D44", "U+11D45", "U+11D47",
      "U+11D90", "U+11D91", "U+11D95", "U+11D97", "U+11DD9", "U+11EF3",
      "U+11EF4", "U+11F00", "U+11F01", "U+11F36", "U+11F37", "U+11F38",
      "U+11F39", "U+11F3A", "U+11F40", "U+11F42", "U+11F5A", "U+13430",
      "U+13431", "U+13432", "U+13433", "U+13434", "U+13435", "U+13436",
      "U+13437", "U+13438", "U+13439", "U+1343A", "U+1343B", "U+1343C",
      "U+1343D", "U+1343E", "U+1343F", "U+13440", "U+13447", "U+13448",
      "U+13449", "U+1344A", "U+1344B", "U+1344C", "U+1344D", "U+1344E",
      "U+1344F", "U+13450", "U+13451", "U+13452", "U+13453", "U+13454",
      "U+13455", "U+1611E", "U+1611F", "U+16120", "U+16121", "U+16122",
      "U+16123", "U+16124", "U+16125", "U+16126", "U+16127", "U+16128",
      "U+16129", "U+1612D", "U+1612E", "U+1612F", "U+16AF0", "U+16AF1",
      "U+16AF2", "U+16AF3", "U+16AF4", "U+16B30", "U+16B31", "U+16B32",
      "U+16B33", "U+16B34", "U+16B35", "U+16B36", "U+16B40", "U+16B41",
      "U+16B42", "U+16B43", "U+16D40", "U+16D41", "U+16D42", "U+16D6B",
      "U+16D6C", "U+16F4F", "U+16F8F", "U+16F90", "U+16F91", "U+16F92",
      "U+16F93", "U+16F94", "U+16F95", "U+16F96", "U+16F97", "U+16F98",
      "U+16F99", "U+16F9A", "U+16F9B", "U+16F9C", "U+16F9D", "U+16F9E",
      "U+16F9F", "U+16FE0", "U+16FE1", "U+16FE3", "U+16FE4", "U+16FF2",
      "U+16FF3", "U+1AFF0", "U+1AFF1", "U+1AFF2", "U+1AFF3", "U+1AFF5",
      "U+1AFF6", "U+1AFF7", "U+1AFF8", "U+1AFF9", "U+1AFFA", "U+1AFFB",
      "U+1AFFD", "U+1AFFE", "U+1BC9D", "U+1BC9E", "U+1BCA0", "U+1BCA1",
      "U+1BCA2", "U+1BCA3", "U+1CF00", "U+1CF01", "U+1CF02", "U+1CF03",
      "U+1CF04", "U+1CF05", "U+1CF06", "U+1CF07", "U+1CF08", "U+1CF09",
      "U+1CF0A", "U+1CF0B", "U+1CF0C", "U+1CF0D", "U+1CF0E", "U+1CF0F",
      "U+1CF10", "U+1CF11", "U+1CF12", "U+1CF13", "U+1CF14", "U+1CF15",
      "U+1CF16", "U+1CF17", "U+1CF18", "U+1CF19", "U+1CF1A", "U+1CF1B",
      "U+1CF1C", "U+1CF1D", "U+1CF1E", "U+1CF1F", "U+1CF20", "U+1CF21",
      "U+1CF22", "U+1CF23", "U+1CF24", "U+1CF25", "U+1CF26", "U+1CF27",
      "U+1CF28", "U+1CF29", "U+1CF2A", "U+1CF2B", "U+1CF2C", "U+1CF2D",
      "U+1CF30", "U+1CF31", "U+1CF32", "U+1CF33", "U+1CF34", "U+1CF35",
      "U+1CF36", "U+1CF37", "U+1CF38", "U+1CF39", "U+1CF3A", "U+1CF3B",
      "U+1CF3C", "U+1CF3D", "U+1CF3E", "U+1CF3F", "U+1CF40", "U+1CF41",
      "U+1CF42", "U+1CF43", "U+1CF44", "U+1CF45", "U+1CF46", "U+1D167",
      "U+1D168", "U+1D169", "U+1D173", "U+1D174", "U+1D175", "U+1D176",
      "U+1D177", "U+1D178", "U+1D179", "U+1D17A", "U+1D17B", "U+1D17C",
      "U+1D17D", "U+1D17E", "U+1D17F", "U+1D180", "U+1D181", "U+1D182",
      "U+1D185", "U+1D186", "U+1D187", "U+1D188", "U+1D189", "U+1D18A",
      "U+1D18B", "U+1D1AA", "U+1D1AB", "U+1D1AC", "U+1D1AD", "U+1D242",
      "U+1D243", "U+1D244", "U+1DA00", "U+1DA01", "U+1DA02", "U+1DA03",
      "U+1DA04", "U+1DA05", "U+1DA06", "U+1DA07", "U+1DA08", "U+1DA09",
      "U+1DA0A", "U+1DA0B", "U+1DA0C", "U+1DA0D", "U+1DA0E", "U+1DA0F",
      "U+1DA10", "U+1DA11", "U+1DA12", "U+1DA13", "U+1DA14", "U+1DA15",
      "U+1DA16", "U+1DA17", "U+1DA18", "U+1DA19", "U+1DA1A", "U+1DA1B",
      "U+1DA1C", "U+1DA1D", "U+1DA1E", "U+1DA1F", "U+1DA20", "U+1DA21",
      "U+1DA22", "U+1DA23", "U+1DA24", "U+1DA25", "U+1DA26", "U+1DA27",
      "U+1DA28", "U+1DA29", "U+1DA2A", "U+1DA2B", "U+1DA2C", "U+1DA2D",
      "U+1DA2E", "U+1DA2F", "U+1DA30", "U+1DA31", "U+1DA32", "U+1DA33",
      "U+1DA34", "U+1DA35", "U+1DA36", "U+1DA3B", "U+1DA3C", "U+1DA3D",
      "U+1DA3E", "U+1DA3F", "U+1DA40", "U+1DA41", "U+1DA42", "U+1DA43",
      "U+1DA44", "U+1DA45", "U+1DA46", "U+1DA47", "U+1DA48", "U+1DA49",
      "U+1DA4A", "U+1DA4B", "U+1DA4C", "U+1DA4D", "U+1DA4E", "U+1DA4F",
      "U+1DA50", "U+1DA51", "U+1DA52", "U+1DA53", "U+1DA54", "U+1DA55",
      "U+1DA56", "U+1DA57", "U+1DA58", "U+1DA59", "U+1DA5A", "U+1DA5B",
      "U+1DA5C", "U+1DA5D", "U+1DA5E", "U+1DA5F", "U+1DA60", "U+1DA61",
      "U+1DA62", "U+1DA63", "U+1DA64", "U+1DA65", "U+1DA66", "U+1DA67",
      "U+1DA68", "U+1DA69", "U+1DA6A", "U+1DA6B", "U+1DA6C", "U+1DA75",
      "U+1DA84", "U+1DA9B", "U+1DA9C", "U+1DA9D", "U+1DA9E", "U+1DA9F",
      "U+1DAA1", "U+1DAA2", "U+1DAA3", "U+1DAA4", "U+1DAA5", "U+1DAA6",
      "U+1DAA7", "U+1DAA8", "U+1DAA9", "U+1DAAA", "U+1DAAB", "U+1DAAC",
      "U+1DAAD", "U+1DAAE", "U+1DAAF", "U+1E000", "U+1E001", "U+1E002",
      "U+1E003", "U+1E004", "U+1E005", "U+1E006", "U+1E008", "U+1E009",
      "U+1E00A", "U+1E00B", "U+1E00C", "U+1E00D", "U+1E00E", "U+1E00F",
      "U+1E010", "U+1E011", "U+1E012", "U+1E013", "U+1E014", "U+1E015",
      "U+1E016", "U+1E017", "U+1E018", "U+1E01B", "U+1E01C", "U+1E01D",
      "U+1E01E", "U+1E01F", "U+1E020", "U+1E021", "U+1E023", "U+1E024",
      "U+1E026", "U+1E027", "U+1E028", "U+1E029", "U+1E02A", "U+1E030",
      "U+1E031", "U+1E032", "U+1E033", "U+1E034", "U+1E035", "U+1E036",
      "U+1E037", "U+1E038", "U+1E039", "U+1E03A", "U+1E03B", "U+1E03C",
      "U+1E03D", "U+1E03E", "U+1E03F", "U+1E040", "U+1E041", "U+1E042",
      "U+1E043", "U+1E044", "U+1E045", "U+1E046", "U+1E047", "U+1E048",
      "U+1E049", "U+1E04A", "U+1E04B", "U+1E04C", "U+1E04D", "U+1E04E",
      "U+1E04F", "U+1E050", "U+1E051", "U+1E052", "U+1E053", "U+1E054",
      "U+1E055", "U+1E056", "U+1E057", "U+1E058", "U+1E059", "U+1E05A",
      "U+1E05B", "U+1E05C", "U+1E05D", "U+1E05E", "U+1E05F", "U+1E060",
      "U+1E061", "U+1E062", "U+1E063", "U+1E064", "U+1E065", "U+1E066",
      "U+1E067", "U+1E068", "U+1E069", "U+1E06A", "U+1E06B", "U+1E06C",
      "U+1E06D", "U+1E08F", "U+1E130", "U+1E131", "U+1E132", "U+1E133",
      "U+1E134", "U+1E135", "U+1E136", "U+1E137", "U+1E138", "U+1E139",
      "U+1E13A", "U+1E13B", "U+1E13C", "U+1E13D", "U+1E2AE", "U+1E2EC",
      "U+1E2ED", "U+1E2EE", "U+1E2EF", "U+1E4EB", "U+1E4EC", "U+1E4ED",
      "U+1E4EE", "U+1E4EF", "U+1E5EE", "U+1E5EF", "U+1E6E3", "U+1E6E6",
      "U+1E6EE", "U+1E6EF", "U+1E6F5", "U+1E6FF", "U+1E8D0", "U+1E8D1",
      "U+1E8D2", "U+1E8D3", "U+1E8D4", "U+1E8D5", "U+1E8D6", "U+1E944",
      "U+1E945", "U+1E946", "U+1E947", "U+1E948", "U+1E949", "U+1E94A",
      "U+1E94B", "U+1F3FB", "U+1F3FC", "U+1F3FD", "U+1F3FE", "U+1F3FF",
      "U+E0001", "U+E0020", "U+E0021", "U+E0022", "U+E0023", "U+E0024",
      "U+E0025", "U+E0026", "U+E0027", "U+E0028", "U+E0029", "U+E002A",
      "U+E002B", "U+E002C", "U+E002D", "U+E002E", "U+E002F", "U+E0030",
      "U+E0031", "U+E0032", "U+E0033", "U+E0034", "U+E0035", "U+E0036",
      "U+E0037", "U+E0038", "U+E0039", "U+E003A", "U+E003B", "U+E003C",
      "U+E003D", "U+E003E", "U+E003F", "U+E0040", "U+E0041", "U+E0042",
      "U+E0043", "U+E0044", "U+E0045", "U+E0046", "U+E0047", "U+E0048",
      "U+E0049", "U+E004A", "U+E004B", "U+E004C", "U+E004D", "U+E004E",
      "U+E004F", "U+E0050", "U+E0051", "U+E0052", "U+E0053", "U+E0054",
      "U+E0055", "U+E0056", "U+E0057", "U+E0058", "U+E0059", "U+E005A",
      "U+E005B", "U+E005C", "U+E005D", "U+E005E", "U+E005F", "U+E0060",
      "U+E0061", "U+E0062", "U+E0063", "U+E0064", "U+E0065", "U+E0066",
      "U+E0067", "U+E0068", "U+E0069", "U+E006A", "U+E006B", "U+E006C",
      "U+E006D", "U+E006E", "U+E006F", "U+E0070", "U+E0071", "U+E0072",
      "U+E0073", "U+E0074", "U+E0075", "U+E0076", "U+E0077", "U+E0078",
      "U+E0079", "U+E007A", "U+E007B", "U+E007C", "U+E007D", "U+E007E",
      "U+E007F", "U+E0100", "U+E0101", "U+E0102", "U+E0103", "U+E0104",
      "U+E0105", "U+E0106", "U+E0107", "U+E0108", "U+E0109", "U+E010A",
      "U+E010B", "U+E010C", "U+E010D", "U+E010E", "U+E010F", "U+E0110",
      "U+E0111", "U+E0112", "U+E0113", "U+E0114", "U+E0115", "U+E0116",
      "U+E0117", "U+E0118", "U+E0119", "U+E011A", "U+E011B", "U+E011C",
      "U+E011D", "U+E011E", "U+E011F", "U+E0120", "U+E0121", "U+E0122",
      "U+E0123", "U+E0124", "U+E0125", "U+E0126", "U+E0127", "U+E0128",
      "U+E0129", "U+E012A", "U+E012B", "U+E012C", "U+E012D", "U+E012E",
      "U+E012F", "U+E0130", "U+E0131", "U+E0132", "U+E0133", "U+E0134",
      "U+E0135", "U+E0136", "U+E0137", "U+E0138", "U+E0139", "U+E013A",
      "U+E013B", "U+E013C", "U+E013D", "U+E013E", "U+E013F", "U+E0140",
      "U+E0141", "U+E0142", "U+E0143", "U+E0144", "U+E0145", "U+E0146",
      "U+E0147", "U+E0148", "U+E0149", "U+E014A", "U+E014B", "U+E014C",
      "U+E014D", "U+E014E", "U+E014F", "U+E0150", "U+E0151", "U+E0152",
      "U+E0153", "U+E0154", "U+E0155", "U+E0156", "U+E0157", "U+E0158",
      "U+E0159", "U+E015A", "U+E015B", "U+E015C", "U+E015D", "U+E015E",
      "U+E015F", "U+E0160", "U+E0161", "U+E0162", "U+E0163", "U+E0164",
      "U+E0165", "U+E0166", "U+E0167", "U+E0168", "U+E0169", "U+E016A",
      "U+E016B", "U+E016C", "U+E016D", "U+E016E", "U+E016F", "U+E0170",
      "U+E0171", "U+E0172", "U+E0173", "U+E0174", "U+E0175", "U+E0176",
      "U+E0177", "U+E0178", "U+E0179", "U+E017A", "U+E017B", "U+E017C",
      "U+E017D", "U+E017E", "U+E017F", "U+E0180", "U+E0181", "U+E0182",
      "U+E0183", "U+E0184", "U+E0185", "U+E0186", "U+E0187", "U+E0188",
      "U+E0189", "U+E018A", "U+E018B", "U+E018C", "U+E018D", "U+E018E",
      "U+E018F", "U+E0190", "U+E0191", "U+E0192", "U+E0193", "U+E0194",
      "U+E0195", "U+E0196", "U+E0197", "U+E0198", "U+E0199", "U+E019A",
      "U+E019B", "U+E019C", "U+E019D", "U+E019E", "U+E019F", "U+E01A0",
      "U+E01A1", "U+E01A2", "U+E01A3", "U+E01A4", "U+E01A5", "U+E01A6",
      "U+E01A7", "U+E01A8", "U+E01A9", "U+E01AA", "U+E01AB", "U+E01AC",
      "U+E01AD", "U+E01AE", "U+E01AF", "U+E01B0", "U+E01B1", "U+E01B2",
      "U+E01B3", "U+E01B4", "U+E01B5", "U+E01B6", "U+E01B7", "U+E01B8",
      "U+E01B9", "U+E01BA", "U+E01BB", "U+E01BC", "U+E01BD", "U+E01BE",
      "U+E01BF", "U+E01C0", "U+E01C1", "U+E01C2", "U+E01C3", "U+E01C4",
      "U+E01C5", "U+E01C6", "U+E01C7", "U+E01C8", "U+E01C9", "U+E01CA",
      "U+E01CB", "U+E01CC", "U+E01CD", "U+E01CE", "U+E01CF", "U+E01D0",
      "U+E01D1", "U+E01D2", "U+E01D3", "U+E01D4", "U+E01D5", "U+E01D6",
      "U+E01D7", "U+E01D8", "U+E01D9", "U+E01DA", "U+E01DB", "U+E01DC",
      "U+E01DD", "U+E01DE", "U+E01DF", "U+E01E0", "U+E01E1", "U+E01E2",
      "U+E01E3", "U+E01E4", "U+E01E5", "U+E01E6", "U+E01E7", "U+E01E8",
      "U+E01E9", "U+E01EA", "U+E01EB", "U+E01EC", "U+E01ED", "U+E01EE",
      "U+E01EF" }

\* A set of pairs as a function of the first component.
mappingOf(pairs) ==
    [ c \in { p[1] : p \in pairs } |-> (CHOOSE p \in pairs : p[1] = c)[2] ]

simpleUpperCaseOf == mappingOf(SimpleUpperCase)

specialUpperCaseOf == mappingOf(SpecialUpperCase)

simpleLowerCaseOf == mappingOf(SimpleLowerCase)

specialLowerCaseOf == mappingOf(SpecialLowerCase)

\* The case mapping of one character: the special mapping, else the simple
\* one, else the character itself.
caseOfChar(c, simple, special) ==
    IF c \in DOMAIN special THEN special[c]
    ELSE IF c \in DOMAIN simple THEN << simple[c] >>
    ELSE << c >>

\* The upper case of one character, a string of one to three characters.
upperCaseOfChar(c) == caseOfChar(c, simpleUpperCaseOf, specialUpperCaseOf)

\* The lower case of one character other than capital sigma, a string of
\* one or two characters.
lowerCaseOfChar(c) == caseOfChar(c, simpleLowerCaseOf, specialLowerCaseOf)

\* Going from position i of s in direction dir over the case-ignorable
\* characters, the first other character exists and is cased.
RECURSIVE casedLetterNext(_, _, _, _, _)
casedLetterNext(s, i, dir, cased, ignorable) ==
    IF i < 1 \/ i > Len(s) THEN FALSE
    ELSE IF s[i] \in ignorable
    THEN casedLetterNext(s, i + dir, dir, cased, ignorable)
    ELSE s[i] \in cased

\* The capital sigma at position i of s is a final sigma: a cased letter is
\* before it and none is after it, case-ignorable characters apart.
finalSigma(s, i, cased, ignorable) ==
    /\ casedLetterNext(s, i - 1, -1, cased, ignorable)
    /\ ~casedLetterNext(s, i + 1, 1, cased, ignorable)

isFinalSigma(s, i) == finalSigma(s, i, Cased, CaseIgnorable)

\* toUpperCase that leaves the string as it is.
toUpperCase_Unchanged(s) == s

\* String.prototype.toUpperCase: the upper case of every character, in
\* order; the result can be longer than the string.
RECURSIVE toUpperCase(_)
toUpperCase(s) ==
    IF Len(s) = 0 THEN << >>
    ELSE upperCaseOfChar(Head(s)) \o toUpperCase(Tail(s))

\* The lower case of s from position i on.
RECURSIVE toLowerCaseFrom(_, _)
toLowerCaseFrom(s, i) ==
    IF i > Len(s) THEN << >>
    ELSE (IF s[i] = "Σ"
          THEN IF isFinalSigma(s, i) THEN << "ς" >> ELSE << "σ" >>
          ELSE lowerCaseOfChar(s[i]))
            \o toLowerCaseFrom(s, i + 1)

\* String.prototype.toLowerCase
toLowerCase(s) == toLowerCaseFrom(s, 1)

\* Number.prototype.toString of a non-negative integer.
RECURSIVE natToString(_)
natToString(n) ==
    IF n < 10
    THEN << DigitChars[n + 1] >>
    ELSE Append(natToString(n \div 10), DigitChars[(n % 10) + 1])

\* Number.prototype.toString of an integer.
numberToString(n) ==
    IF n < 0 THEN << "-" >> \o natToString(-n) ELSE natToString(n)

\* padStart that pads nothing.
padStart_NoPadding(s, targetLength, padChar) == s

\* String.prototype.padStart with a one-character pad string.
RECURSIVE padStart(_, _, _)
padStart(s, targetLength, padChar) ==
    IF Len(s) >= targetLength
    THEN s
    ELSE padStart(<< padChar >> \o s, targetLength, padChar)

\* Array.prototype.join of an array of strings.
RECURSIVE join(_, _)
join(parts, separator) ==
    IF Len(parts) = 0 THEN << >>
    ELSE IF Len(parts) = 1 THEN parts[1]
    ELSE parts[1] \o separator \o join(Tail(parts), separator)

\* String( undefined ), what concat appends for an undefined argument.
UndefinedText == << "u", "n", "d", "e", "f", "i", "n", "e", "d" >>

\* ------------------------------------------------------ JavaScript values

\* A value as the validation of formatMonetaryAmountForLocale sees it:
\* typeof is the result of the typeof operator; cls tells the values of one
\* typeof apart; str holds the characters of a string (primitive or String
\* object); a finite number is int + frac / 10 with frac in 0..9.
JSValue(typeof, cls, str, int, frac) ==
    [ typeof |-> typeof, cls |-> cls, str |-> str, int |-> int, frac |-> frac ]

JSString(s)       == JSValue("string", "primitive", s, 0, 0)
JSStringObject(s) == JSValue("object", "String", s, 0, 0)
JSNumber(n)       == JSValue("number", "finite", << >>, n, 0)
JSFraction(n, f)  == JSValue("number", "finite", << >>, n, f)
JSNegativeZero    == JSValue("number", "negzero", << >>, 0, 0)
JSNaN             == JSValue("number", "NaN", << >>, 0, 0)
JSInfinity        == JSValue("number", "Infinity", << >>, 0, 0)
JSNumberObject(n) == JSValue("object", "Number", << >>, n, 0)
JSUndefined       == JSValue("undefined", "undefined", << >>, 0, 0)
JSNull            == JSValue("object", "null", << >>, 0, 0)
JSArray           == JSValue("object", "Array", << >>, 0, 0)
JSBoolean         == JSValue("boolean", "primitive", << >>, 0, 0)

\* lodash isString: a primitive string or a String object.
isString(v) == v.typeof = "string" \/ v.cls = "String"

\* typeof amount === 'number' || amount instanceof Number
isNumberOrNumberObject(v) == v.typeof = "number" \/ v.cls = "Number"

\* Number.isInteger replaced by a test of the type alone.
NumberIsInteger_TypeOnly(v) == v.typeof = "number"

\* Number.isInteger: a primitive finite number without fractional part.
NumberIsInteger(v) ==
    /\ v.typeof = "number"
    /\ v.cls \in { "finite", "negzero" }
    /\ v.frac = 0

\* Math.abs that leaves a negative number as it is.
MathAbs_Identity(v) == v.int

\* Math.abs of an integer number.
MathAbs(v) == IF v.int < 0 THEN -v.int ELSE v.int

\* Math.sign that loses the sign of a negative number.
MathSign_OfMagnitude(v) == IF v.int = 0 THEN 0 ELSE 1

\* Math.sign of an integer number.  Math.sign( -0 ) is -0, which the code
\* only compares with 0 ( -0 >= 0 and 0 === -0 are both true ), so it is 0.
MathSign(v) == IF v.int < 0 THEN -1 ELSE IF v.int > 0 THEN 1 ELSE 0

\* ----------------------------------------------------------------- outcomes

Call(fn, code, n) == [ fn |-> fn, code |-> code, n |-> n ]

Return(value, trace) == [ ok |-> TRUE, val |-> value, trace |-> trace ]

Throw(thrown, trace) == [ ok |-> FALSE, val |-> thrown, trace |-> trace ]

\* ------------------------------------------------------ currency and locale

\* symbolForCurrency whose default case returns the code as the symbol.
symbolForCurrency_DefaultsToCode(currencyCode) ==
    LET normalizedCurrencyCode == toUpperCase(currencyCode)
        me == << Call("symbolForCurrency", currencyCode, 0) >>
    IN  IF normalizedCurrencyCode \in
              { << "A", "U", "D" >>, << "C", "A", "D" >>,
                << "N", "Z", "D" >>, << "U", "S", "D" >> }
        THEN Return(<< "$" >>, me)
        ELSE IF normalizedCurrencyCode = << "G", "B", "P" >>
        THEN Return(<< "£" >>, me)
        ELSE IF normalizedCurrencyCode = << "E", "U", "R" >>
        THEN Return(<< "€" >>, me)
        ELSE IF normalizedCurrencyCode = << "J", "P", "Y" >>
        THEN Return(<< "¥" >>, me)
        ELSE IF normalizedCurrencyCode = << "B", "R", "L" >>
        THEN Return(<< "R", "$" >>, me)
        ELSE Return(normalizedCurrencyCode, me)

symbolForCurrency(currencyCode) ==
    LET normalizedCurrencyCode == toUpperCase(currencyCode)
        me == << Call("symbolForCurrency", currencyCode, 0) >>
    IN  IF normalizedCurrencyCode \in
              { << "A", "U", "D" >>, << "C", "A", "D" >>,
                << "N", "Z", "D" >>, << "U", "S", "D" >> }
        THEN Return(<< "$" >>, me)
        ELSE IF normalizedCurrencyCode = << "G", "B", "P" >>
        THEN Return(<< "£" >>, me)
        ELSE IF normalizedCurrencyCode = << "E", "U", "R" >>
        THEN Return(<< "€" >>, me)
        ELSE IF normalizedCurrencyCode = << "J", "P", "Y" >>
        THEN Return(<< "¥" >>, me)
        ELSE IF normalizedCurrencyCode = << "B", "R", "L" >>
        THEN Return(<< "R", "$" >>, me)
        ELSE Throw(<< "Symbol for currency code not defined: " >>
                       \o normalizedCurrencyCode, me)

\* minorUnitsPerMajorUnitForCurrency with JPY among the currencies of 100
\* minor units.
minorUnitsPerMajorUnitForCurrency_YenInHundredths(currencyCode) ==
    LET normalizedCurrencyCode == toUpperCase(currencyCode)
        me == << Call("minorUnitsPerMajorUnitForCurrency", currencyCode, 0) >>
    IN  IF normalizedCurrencyCode \in
              { << "J", "P", "Y" >>,
                << "B", "R", "L" >>, << "C", "A", "D" >>, << "E", "U", "R" >>,
                << "G", "B", "P" >>, << "N", "Z", "D" >>, << "U", "S", "D" >> }
        THEN Return(100, me)
        ELSE Throw(<< "Unknown currency exponent" >>, me)

\* minorUnitsPerMajorUnitForCurrency with an 'AUD' case of 100.
minorUnitsPerMajorUnitForCurrency_WithAUD(currencyCode) ==
    LET normalizedCurrencyCode == toUpperCase(currencyCode)
        me == << Call("minorUnitsPerMajorUnitForCurrency", currencyCode, 0) >>
    IN  IF normalizedCurrencyCode = << "J", "P", "Y" >>
        THEN Return(1, me)
        ELSE IF normalizedCurrencyCode \in
              { << "A", "U", "D" >>, << "B", "R", "L" >>, << "C", "A", "D" >>,
                << "E", "U", "R" >>, << "G", "B", "P" >>, << "N", "Z", "D" >>,
                << "U", "S", "D" >> }
        THEN Return(100, me)
        ELSE Throw(<< "Unknown currency exponent" >>, me)

minorUnitsPerMajorUnitForCurrency(currencyCode) ==
    LET normalizedCurrencyCode == toUpperCase(currencyCode)
        me == << Call("minorUnitsPerMajorUnitForCurrency", currencyCode, 0) >>
    IN  IF normalizedCurrencyCode = << "J", "P", "Y" >>
        THEN Return(1, me)
        ELSE IF normalizedCurrencyCode \in
              { << "B", "R", "L" >>, << "C", "A", "D" >>, << "E", "U", "R" >>,
                << "G", "B", "P" >>, << "N", "Z", "D" >>, << "U", "S", "D" >> }
        THEN Return(100, me)
        ELSE Throw(<< "Unknown currency exponent" >>, me)

\* minorUnitsAsDecimalForCurrency without the padStart.
minorUnitsAsDecimalForCurrency_Unpadded(currencyCode, absoluteAmount) ==
    LET normalizedCurrencyCode == toUpperCase(currencyCode)
        me == << Call("minorUnitsAsDecimalForCurrency", currencyCode,
                      absoluteAmount) >>
    IN  IF normalizedCurrencyCode \in
              { << "A", "U", "D" >>, << "C", "A", "D" >>, << "E", "U", "R" >>,
                << "G", "B", "P" >>, << "N", "Z", "D" >>, << "U", "S", "D" >> }
        THEN IF absoluteAmount < 0 \/ 100 <= absoluteAmount
             THEN Throw(<< >>, me)
             ELSE Return(numberToString(absoluteAmount), me)
        ELSE IF normalizedCurrencyCode = << "J", "P", "Y" >>
        THEN Throw(<< "Currency does not have a minimal unit: " >>
                       \o normalizedCurrencyCode, me)
        ELSE Throw(<< "Minor unit format for currency code not defined: " >>
                       \o normalizedCurrencyCode, me)

\* minorUnitsAsDecimalForCurrency with a 'BRL' case in the two-digit group.
minorUnitsAsDecimalForCurrency_WithBRL(currencyCode, absoluteAmount) ==
    LET normalizedCurrencyCode == toUpperCase(currencyCode)
        me == << Call("minorUnitsAsDecimalForCurrency", currencyCode,
                      absoluteAmount) >>
    IN  IF normalizedCurrencyCode \in
              { << "A", "U", "D" >>, << "B", "R", "L" >>, << "C", "A", "D" >>,
                << "E", "U", "R" >>, << "G", "B", "P" >>, << "N", "Z", "D" >>,
                << "U", "S", "D" >> }
        THEN IF absoluteAmount < 0 \/ 100 <= absoluteAmount
             THEN Throw(<< >>, me)
             ELSE Return(padStart(numberToString(absoluteAmount), 2, "0"), me)
        ELSE IF normalizedCurrencyCode = << "J", "P", "Y" >>
        THEN Throw(<< "Currency does not have a minimal unit: " >>
                       \o normalizedCurrencyCode, me)
        ELSE Throw(<< "Minor unit format for currency code not defined: " >>
                       \o normalizedCurrencyCode, me)

\* minorUnitsAsDecimalForCurrency without the test of the range.
minorUnitsAsDecimalForCurrency_NoRangeCheck(currencyCode, absoluteAmount) ==
    LET normalizedCurrencyCode == toUpperCase(currencyCode)
        me == << Call("minorUnitsAsDecimalForCurrency", currencyCode,
                      absoluteAmount) >>
    IN  IF normalizedCurrencyCode \in
              { << "A", "U", "D" >>, << "C", "A", "D" >>, << "E", "U", "R" >>,
                << "G", "B", "P" >>, << "N", "Z", "D" >>, << "U", "S", "D" >> }
        THEN Return(padStart(numberToString(absoluteAmount), 2, "0"), me)
        ELSE IF normalizedCurrencyCode = << "J", "P", "Y" >>
        THEN Throw(<< "Currency does not have a minimal unit: " >>
                       \o normalizedCurrencyCode, me)
        ELSE Throw(<< "Minor unit format for currency code not defined: " >>
                       \o normalizedCurrencyCode, me)

minorUnitsAsDecimalForCurrency(currencyCode, absoluteAmount) ==
    LET normalizedCurrencyCode == toUpperCase(currencyCode)
        me == << Call("minorUnitsAsDecimalForCurrency", currencyCode,
                      absoluteAmount) >>
    IN  IF normalizedCurrencyCode \in
              { << "A", "U", "D" >>, << "C", "A", "D" >>, << "E", "U", "R" >>,
                << "G", "B", "P" >>, << "N", "Z", "D" >>, << "U", "S", "D" >> }
        THEN IF absoluteAmount < 0 \/ 100 <= absoluteAmount
             THEN Throw(<< >>, me)
             ELSE Return(padStart(numberToString(absoluteAmount), 2, "0"), me)
        ELSE IF normalizedCurrencyCode = << "J", "P", "Y" >>
        THEN Throw(<< "Currency does not have a minimal unit: " >>
                       \o normalizedCurrencyCode, me)
        ELSE Throw(<< "Minor unit format for currency code not defined: " >>
                       \o normalizedCurrencyCode, me)

\* The switch has no default: any other locale code yields undefined.
separatorsForLocale(localeCode) ==
    LET normalizedLocaleCode == toLowerCase(localeCode)
        me == << Call("separatorsForLocale", localeCode, 0) >>
    IN  IF normalizedLocaleCode \in
              { << "g", "b" >>, << "j", "p" >>, << "n", "z" >>, << "u", "s" >> }
        THEN Return([ defined |-> TRUE, decimalSeparator |-> << "." >>,
                      groupSeparator |-> << "," >> ], me)
        ELSE IF normalizedLocaleCode = << "a", "u" >>
        THEN Return([ defined |-> TRUE, decimalSeparator |-> << "." >>,
                      groupSeparator |-> << " " >> ], me)
        ELSE IF normalizedLocaleCode = << "b", "r" >>
        THEN Return([ defined |-> TRUE, decimalSeparator |-> << "," >>,
                      groupSeparator |-> << "." >> ], me)
        ELSE Return([ defined |-> FALSE, decimalSeparator |-> << >>,
                      groupSeparator |-> << >> ], me)

\* ------------------------------------------------------------ digit groups

\* groupDigitsAccum that splits off groups of two digits.
RECURSIVE groupDigitsAccum_Hundreds(_, _)
groupDigitsAccum_Hundreds(localAmount, localDigits) ==
    IF localAmount < 100
    THEN << numberToString(localAmount) >> \o localDigits
    ELSE LET nextGroup == localAmount % 100
             remainder == localAmount \div 100
         IN  groupDigitsAccum_Hundreds(
                 remainder,
                 << padStart(numberToString(nextGroup), 2, "0") >> \o localDigits)

\* groupDigitsAccum whose last step returns the top group alone.
RECURSIVE groupDigitsAccum_DropsAccumulated(_, _)
groupDigitsAccum_DropsAccumulated(localAmount, localDigits) ==
    IF localAmount < 1000
    THEN << numberToString(localAmount) >>
    ELSE LET nextGroup == localAmount % 1000
             remainder == localAmount \div 1000
         IN  groupDigitsAccum_DropsAccumulated(
                 remainder,
                 << padStart(numberToString(nextGroup), 3, "0") >> \o localDigits)

RECURSIVE groupDigitsAccum(_, _)
groupDigitsAccum(localAmount, localDigits) ==
    IF localAmount < 1000
    THEN << numberToString(localAmount) >> \o localDigits
    ELSE LET nextGroup == localAmount % 1000
             remainder == localAmount \div 1000
         IN  groupDigitsAccum(
                 remainder,
                 << padStart(numberToString(nextGroup), 3, "0") >> \o localDigits)

groupDigits(amount) == groupDigitsAccum(amount, << >>)

\* absoluteAmount is an integer here, so Number.isInteger( absoluteAmount )
\* holds and the guard is the test of its sign.
digitGroupsOfAmountForCurrency(currencyCode, absoluteAmount) ==
    LET me == << Call("digitGroupsOfAmountForCurrency", currencyCode,
                      absoluteAmount) >>
    IN  IF ~(absoluteAmount >= 0)
        THEN Throw(<< "absoluteAmount parameter must be a nonnegative integer." >>, me)
        ELSE IF 0 = absoluteAmount
        THEN LET zero == minorUnitsAsDecimalForCurrency(currencyCode, 0)
             IN  IF ~zero.ok
                 THEN Throw(zero.val, me \o zero.trace)
                 ELSE Return([ integerPart |-> << << "0" >> >>,
                               hasFractionalPart |-> TRUE,
                               fractionalPart |-> zero.val ],
                             me \o zero.trace)
        ELSE LET base == minorUnitsPerMajorUnitForCurrency(currencyCode)
             IN  IF ~base.ok
                 THEN Throw(base.val, me \o base.trace)
                 ELSE IF 1 = base.val
                 THEN Return([ integerPart |-> groupDigits(absoluteAmount),
                               hasFractionalPart |-> FALSE,
                               fractionalPart |-> << >> ],
                             me \o base.trace
                                \o << Call("groupDigits", << >>, absoluteAmount) >>)
                 ELSE LET minor == minorUnitsAsDecimalForCurrency(
                                       currencyCode, absoluteAmount % base.val)
                          majorUnitAmount == absoluteAmount \div base.val
                      IN  IF ~minor.ok
                          THEN Throw(minor.val, me \o base.trace \o minor.trace)
                          ELSE Return(
                                 [ integerPart |-> groupDigits(majorUnitAmount),
                                   hasFractionalPart |-> TRUE,
                                   fractionalPart |-> minor.val ],
                                 me \o base.trace \o minor.trace
                                    \o << Call("groupDigits", << >>, majorUnitAmount) >>)

\* digitGroupsOfAmountForCurrency given any value: the guard of its first
\* statement with the test Number.isInteger( absoluteAmount ), and then the
\* function on the integer.
digitGroupsOfAmountOfValue(currencyCode, absoluteAmount) ==
    IF ~(NumberIsInteger(absoluteAmount) /\ absoluteAmount.int >= 0)
    THEN Throw(<< "absoluteAmount parameter must be a nonnegative integer." >>,
               << Call("digitGroupsOfAmountForCurrency", currencyCode,
                       absoluteAmount.int) >>)
    ELSE digitGroupsOfAmountForCurrency(currencyCode, absoluteAmount.int)

\* ---------------------------------------------------------------- rendering

\* renderAmountWithSeparators without the special case of base 1.
renderAmountWithSeparators_AlwaysFraction(me, groups, separators, base) ==
    IF ~groups.ok
    THEN Throw(groups.val, me \o groups.trace)
    ELSE IF ~separators.val.defined
    THEN Throw(<< "TypeError" >>, me \o groups.trace \o separators.trace)
    ELSE IF ~base.ok
    THEN Throw(base.val, me \o groups.trace \o separators.trace \o base.trace)
    ELSE Return(join(groups.val.integerPart, separators.val.groupSeparator)
                    \o separators.val.decimalSeparator
                    \o (IF groups.val.hasFractionalPart
                        THEN groups.val.fractionalPart
                        ELSE UndefinedText),
                me \o groups.trace \o separators.trace \o base.trace)

\* The body of renderAmountWithSeparatorsForCurrencyAndLocale, given the
\* outcomes of the three calls it makes, in the order it makes them.
renderAmountWithSeparators(me, groups, separators, base) ==
    IF ~groups.ok
    THEN Throw(groups.val, me \o groups.trace)
    ELSE IF ~separators.val.defined
    THEN \* destructuring undefined
         Throw(<< "TypeError" >>, me \o groups.trace \o separators.trace)
    ELSE IF ~base.ok
    THEN Throw(base.val, me \o groups.trace \o separators.trace \o base.trace)
    ELSE IF 1 = base.val
    THEN Return(join(groups.val.integerPart, separators.val.groupSeparator),
                me \o groups.trace \o separators.trace \o base.trace)
    ELSE Return(join(groups.val.integerPart, separators.val.groupSeparator)
                    \o separators.val.decimalSeparator
                    \o (IF groups.val.hasFractionalPart
                        THEN groups.val.fractionalPart
                        ELSE UndefinedText),
                me \o groups.trace \o separators.trace \o base.trace)

renderAmountWithSeparatorsForCurrencyAndLocale(absoluteAmount, localeCode, currencyCode) ==
    renderAmountWithSeparators(
        << Call("renderAmountWithSeparatorsForCurrencyAndLocale",
                currencyCode, absoluteAmount) >>,
        digitGroupsOfAmountForCurrency(currencyCode, absoluteAmount),
        separatorsForLocale(localeCode),
        minorUnitsPerMajorUnitForCurrency(currencyCode))

\* formatSymbolAndAmount without the special case of zero.
formatSymbolAndAmount_ZeroRendered(me, amountSign, symbol, rendered) ==
    LET sign == IF amountSign >= 0 THEN << >> ELSE << "-" >>
    IN  IF ~symbol.ok
        THEN Throw(symbol.val, me \o symbol.trace)
        ELSE IF ~rendered.ok
        THEN Throw(rendered.val, me \o symbol.trace \o rendered.trace)
        ELSE Return(sign \o (symbol.val \o rendered.val),
                    me \o symbol.trace \o rendered.trace)

\* formatSymbolAndAmount that raises a failure of the rendering before the
\* failure of the symbol lookup.
formatSymbolAndAmount_RenderedFirst(me, amountSign, symbol, rendered) ==
    LET sign == IF amountSign >= 0 THEN << >> ELSE << "-" >>
    IN  IF 0 # amountSign /\ ~rendered.ok
        THEN Throw(rendered.val, me \o symbol.trace \o rendered.trace)
        ELSE IF ~symbol.ok
        THEN Throw(symbol.val, me \o symbol.trace)
        ELSE IF 0 = amountSign
        THEN Return(symbol.val \o << "0" >>, me \o symbol.trace)
        ELSE Return(sign \o (symbol.val \o rendered.val),
                    me \o symbol.trace \o rendered.trace)

\* The body of formatSymbolAmount, given the symbol lookup's outcome and, for
\* a non-zero amount, the outcome of the rendering.
formatSymbolAndAmount(me, amountSign, symbol, rendered) ==
    LET sign == IF amountSign >= 0 THEN << >> ELSE << "-" >>
    IN  IF ~symbol.ok
        THEN Throw(symbol.val, me \o symbol.trace)
        ELSE IF 0 = amountSign
        THEN Return(symbol.val \o << "0" >>, me \o symbol.trace)
        ELSE IF ~rendered.ok
        THEN Throw(rendered.val, me \o symbol.trace \o rendered.trace)
        ELSE Return(sign \o (symbol.val \o rendered.val),
                    me \o symbol.trace \o rendered.trace)

formatSymbolAmount(amountSign, absoluteAmount, localeCode, currencyCode) ==
    formatSymbolAndAmount(
        << Call("formatSymbolAmount", currencyCode, absoluteAmount) >>,
        amountSign,
        symbolForCurrency(currencyCode),
        renderAmountWithSeparatorsForCurrencyAndLocale(
            absoluteAmount, localeCode, currencyCode))

\* The concat of formatSymbolAmountCode, given formatSymbolAmount's outcome.
concatCurrencyCode(me, inner, currencyCode) ==
    IF ~inner.ok
    THEN Throw(inner.val, me \o inner.trace)
    ELSE Return(inner.val \o (<< " " >> \o currencyCode), me \o inner.trace)

formatSymbolAmountCode(amountSign, absoluteAmount, localeCode, currencyCode) ==
    concatCurrencyCode(
        << Call("formatSymbolAmountCode", currencyCode, absoluteAmount) >>,
        formatSymbolAmount(amountSign, absoluteAmount, localeCode, currencyCode),
        currencyCode)

\* SymbolAmountCurrencies with NZD among them.
SymbolAmountCurrencies_WithNZD ==
    { << "U", "S", "D" >>, << "J", "P", "Y" >>,
      << "G", "B", "P" >>, << "E", "U", "R" >>, << "N", "Z", "D" >> }

\* Currencies the 'us' locale renders as symbol and amount, without the code.
SymbolAmountCurrencies ==
    { << "U", "S", "D" >>, << "J", "P", "Y" >>,
      << "G", "B", "P" >>, << "E", "U", "R" >> }

\* HandledLocales with a case for 'gb'.
HandledLocales_WithGb == { << "u", "s" >>, << "g", "b" >> }

\* Locales the top-level switch has a case for.
HandledLocales == { << "u", "s" >> }

formatMonetaryAmountForLocale(localeCode, currencyCode, amount) ==
    IF ~isString(localeCode)
    THEN Throw(<< "locale parameter must be a string." >>, << >>)
    ELSE IF ~isString(currencyCode)
    THEN Throw(<< "currency parameter must be a string." >>, << >>)
    ELSE IF ~isNumberOrNumberObject(amount)
    THEN Throw(<< "amount parameter must be a number." >>, << >>)
    ELSE IF ~NumberIsInteger(amount)
    THEN Throw(<< "amount parameter must be an integer." >>, << >>)
    ELSE LET absoluteAmount == MathAbs(amount)
             amountSign == MathSign(amount)
             normalizedLocaleCode == toLowerCase(localeCode.str)
             normalizedCurrencyCode == toUpperCase(currencyCode.str)
         IN  IF normalizedLocaleCode \in HandledLocales
             THEN IF normalizedCurrencyCode \in SymbolAmountCurrencies
                  THEN formatSymbolAmount(amountSign, absoluteAmount,
                           normalizedLocaleCode, normalizedCurrencyCode)
                  ELSE formatSymbolAmountCode(amountSign, absoluteAmount,
                           normalizedLocaleCode, normalizedCurrencyCode)
             ELSE Throw(<< "Unhandled locale" >>, << >>)

\* ------------------------------------------------- the looser variant
\* The second copy of the formatter.  Its validation, top-level switch,
\* groupDigits, minorUnitsPerMajorUnitForCurrency and separatorsForLocale are
\* the same code as the first copy's; its symbol table has no 'BRL', its
\* minor-unit renderer has no 'AUD' and no 'CAD', tests no range, and its
\* messages do not name the currency code.

Looser_symbolForCurrency(currencyCode) ==
    LET normalizedCurrencyCode == toUpperCase(currencyCode)
        me == << Call("symbolForCurrency", currencyCode, 0) >>
    IN  IF normalizedCurrencyCode \in
              { << "A", "U", "D" >>, << "C", "A", "D" >>,
                << "N", "Z", "D" >>, << "U", "S", "D" >> }
        THEN Return(<< "$" >>, me)
        ELSE IF normalizedCurrencyCode = << "G", "B", "P" >>
        THEN Return(<< "£" >>, me)
        ELSE IF normalizedCurrencyCode = << "E", "U", "R" >>
        THEN Return(<< "€" >>, me)
        ELSE IF normalizedCurrencyCode = << "J", "P", "Y" >>
        THEN Return(<< "¥" >>, me)
        ELSE Throw(<< "Unknown currency symbol" >>, me)

\* Looser_minorUnitsAsDecimalForCurrency with a 'CAD' case.
Looser_minorUnitsAsDecimalForCurrency_WithCAD(currencyCode, absoluteAmount) ==
    LET normalizedCurrencyCode == toUpperCase(currencyCode)
        me == << Call("minorUnitsAsDecimalForCurrency", currencyCode,
                      absoluteAmount) >>
    IN  IF normalizedCurrencyCode \in
              { << "C", "A", "D" >>, << "E", "U", "R" >>, << "G", "B", "P" >>,
                << "N", "Z", "D" >>, << "U", "S", "D" >> }
        THEN Return(padStart(numberToString(absoluteAmount), 2, "0"), me)
        ELSE IF normalizedCurrencyCode = << "J", "P", "Y" >>
        THEN Throw(<< "Currency does not have a minimal unit." >>, me)
        ELSE Throw(<< "Unknown minor unit format" >>, me)

Looser_minorUnitsAsDecimalForCurrency(currencyCode, absoluteAmount) ==
    LET normalizedCurrencyCode == toUpperCase(currencyCode)
        me == << Call("minorUnitsAsDecimalForCurrency", currencyCode,
                      absoluteAmount) >>
    IN  IF normalizedCurrencyCode \in
              { << "E", "U", "R" >>, << "G", "B", "P" >>,
                << "N", "Z", "D" >>, << "U", "S", "D" >> }
        THEN Return(padStart(numberToString(absoluteAmount), 2, "0"), me)
        ELSE IF normalizedCurrencyCode = << "J", "P", "Y" >>
        THEN Throw(<< "Currency does not have a minimal unit." >>, me)
        ELSE Throw(<< "Unknown minor unit format" >>, me)

Looser_digitGroupsOfAmountForCurrency(currencyCode, absoluteAmount) ==
    LET me == << Call("digitGroupsOfAmountForCurrency", currencyCode,
                      absoluteAmount) >>
    IN  IF ~(absoluteAmount >= 0)
        THEN Throw(<< "absoluteAmount parameter must be a nonnegative integer." >>, me)
        ELSE IF 0 = absoluteAmount
        THEN LET zero == Looser_minorUnitsAsDecimalForCurrency(currencyCode, 0)
             IN  IF ~zero.ok
                 THEN Throw(zero.val, me \o zero.trace)
                 ELSE Return([ integerPart |-> << << "0" >> >>,
                               hasFractionalPart |-> TRUE,
                               fractionalPart |-> zero.val ],
                             me \o zero.trace)
        ELSE LET base == minorUnitsPerMajorUnitForCurrency(currencyCode)
             IN  IF ~base.ok
                 THEN Throw(base.val, me \o base.trace)
                 ELSE IF 1 = base.val
                 THEN Return([ integerPart |-> groupDigits(absoluteAmount),
                               hasFractionalPart |-> FALSE,
                               fractionalPart |-> << >> ],
                             me \o base.trace
                                \o << Call("groupDigits", << >>, absoluteAmount) >>)
                 ELSE LET minor == Looser_minorUnitsAsDecimalForCurrency(
                                       currencyCode, absoluteAmount % base.val)
                          majorUnitAmount == absoluteAmount \div base.val
                      IN  IF ~minor.ok
                          THEN Throw(minor.val, me \o base.trace \o minor.trace)
                          ELSE Return(
                                 [ integerPart |-> groupDigits(majorUnitAmount),
                                   hasFractionalPart |-> TRUE,
                                   fractionalPart |-> minor.val ],
                                 me \o base.trace \o minor.trace
                                    \o << Call("groupDigits", << >>, majorUnitAmount) >>)

Looser_renderAmountWithSeparatorsForCurrencyAndLocale(absoluteAmount, localeCode, currencyCode) ==
    renderAmountWithSeparators(
        << Call("renderAmountWithSeparatorsForCurrencyAndLocale",
                currencyCode, absoluteAmount) >>,
        Looser_digitGroupsOfAmountForCurrency(currencyCode, absoluteAmount),
        separatorsForLocale(localeCode),
        minorUnitsPerMajorUnitForCurrency(currencyCode))

Looser_formatSymbolAmount(amountSign, absoluteAmount, localeCode, currencyCode) ==
    formatSymbolAndAmount(
        << Call("formatSymbolAmount", currencyCode, absoluteAmount) >>,
        amountSign,
        Looser_symbolForCurrency(currencyCode),
        Looser_renderAmountWithSeparatorsForCurrencyAndLocale(
            absoluteAmount, localeCode, currencyCode))

Looser_formatSymbolAmountCode(amountSign, absoluteAmount, localeCode, currencyCode) ==
    concatCurrencyCode(
        << Call("formatSymbolAmountCode", currencyCode, absoluteAmount) >>,
        Looser_formatSymbolAmount(amountSign, absoluteAmount, localeCode,
                                  currencyCode),
        currencyCode)

Looser_formatMonetaryAmountForLocale(localeCode, currencyCode, amount) ==
    IF ~isString(localeCode)
    THEN Throw(<< "locale parameter must be a string." >>, << >>)
    ELSE IF ~isString(currencyCode)
    THEN Throw(<< "currency parameter must be a string." >>, << >>)
    ELSE IF ~isNumberOrNumberObject(amount)
    THEN Throw(<< "amount parameter must be a number." >>, << >>)
    ELSE IF ~NumberIsInteger(amount)
    THEN Throw(<< "amount parameter must be an integer." >>, << >>)
    ELSE LET absoluteAmount == MathAbs(amount)
             amountSign == MathSign(amount)
             normalizedLocaleCode == toLowerCase(localeCode.str)
             normalizedCurrencyCode == toUpperCase(currencyCode.str)
         IN  IF normalizedLocaleCode \in HandledLocales
             THEN IF normalizedCurrencyCode \in SymbolAmountCurrencies
                  THEN Looser_formatSymbolAmount(amountSign, absoluteAmount,
                           normalizedLocaleCode, normalizedCurrencyCode)
                  ELSE Looser_formatSymbolAmountCode(amountSign, absoluteAmount,
                           normalizedLocaleCode, normalizedCurrencyCode)
             ELSE Throw(<< "Unhandled locale" >>, << >>)

\* ------------------------------------------------------------ the machine

VARIABLES
    op,            \* the function called
    localeCode,    \* its arguments
    currencyCode,
    amount,
    pc,            \* "called" before the function has run, "returned" after
    result         \* its outcome

vars == << op, localeCode, currencyCode, amount, pc, result >>

\* Amounts beyond the dense range: the amounts of the test file, and the
\* boundaries of the digit groups.
BigAmounts ==
    { 500, 999, 1000, 1001, 5000, 9999, 10000, 50000, 99900, 99999, 100000,
      100001, 100099, 123456, 500000, 999999, 1000000, 5000000, 50000000,
      99999999, 100000000, 100000099, 500000000, 999999999, 1000000000,
      1234567890, 2147483647 }

IntegerAmounts ==
    (-MaxDense .. MaxDense) \cup BigAmounts \cup { -a : a \in BigAmounts }

OtherAmounts ==
    { JSNegativeZero, JSFraction(100, 5), JSFraction(0, 5), JSFraction(-1, 5),
      JSNaN, JSInfinity, JSNumberObject(100),
      JSString(<< "1", "0", "0" >>), JSUndefined, JSNull, JSArray, JSBoolean }

FewAmounts ==
    { JSNumber(a) : a \in { 0, 1, -1, 5, 99, -99, 100, -100, 500, -500,
                            10000, -10000, 123456, -123456 } }
        \cup OtherAmounts

AllAmounts == { JSNumber(a) : a \in IntegerAmounts } \cup OtherAmounts

UpperCurrencyCodes ==
    { << "U", "S", "D" >>, << "J", "P", "Y" >>, << "G", "B", "P" >>,
      << "E", "U", "R" >>, << "A", "U", "D" >>, << "C", "A", "D" >>,
      << "N", "Z", "D" >>, << "B", "R", "L" >>, << "Z", "Z", "Z" >> }

MixedCurrencyCodes ==
    { << "u", "s", "d" >>, << "U", "s", "d" >>, << "j", "p", "y" >>,
      << "g", "b", "p" >>, << "e", "u", "r" >>, << "a", "u", "d" >>,
      << "c", "a", "D" >>, << "n", "z", "d" >>, << "b", "r", "l" >>,
      << "z", "z", "z" >>, << "U", "S" >>, << >>,
      << "u", "U+017F", "d" >>, << "ß" >>, << "é" >>, << "µ" >>,
      << "z", "é", "z" >>, << "j", "p", "ÿ" >>, << "U+FB01" >>,
      << "σ" >>, << "U+0149" >>, << "ǰ" >> }

NonStrings == { JSUndefined, JSNull, JSNumber(1), JSArray }

AllCurrencies ==
    { JSString(c) : c \in UpperCurrencyCodes \cup MixedCurrencyCodes }
        \cup { JSStringObject(<< "U", "S", "D" >>) } \cup NonStrings

LocaleCodes ==
    { << "u", "s" >>, << "U", "S" >>, << "U", "s" >>, << "u", "S" >>,
      << "g", "b" >>, << "G", "B" >>, << "j", "p" >>, << "n", "z" >>,
      << "a", "u" >>, << "b", "r" >>, << "f", "r" >>, << "u", "s", "a" >>,
      << >>, << "U", "U+017F" >>, << "U+212A" >>, << "É", "s" >>,
      << "U+0130" >>, << "Σ" >>, << "Α", "Σ" >>, << "Α", ".", "Σ" >>,
      << "Σ", "Α" >>, << "U+0100" >>, << "U+042F" >> }

AllLocales ==
    { JSString(l) : l \in LocaleCodes }
        \cup { JSStringObject(<< "u", "s" >>) } \cup NonStrings

\* The calls of formatMonetaryAmountForLocale: every amount for locale 'us'
\* and the upper-case currency codes, and every locale and currency
\* argument for a sample of the amounts.
FormatCalls ==
    ({ JSString(<< "u", "s" >>) }
        \X { JSString(c) : c \in UpperCurrencyCodes } \X AllAmounts)
    \cup (AllLocales \X AllCurrencies \X FewAmounts)

GroupDigitsArguments == (0 .. MaxGroupArg) \cup BigAmounts

\* The calls of minorUnitsAsDecimalForCurrency: every currency code with
\* every integer around the range [0, 100).
MinorUnitCalls ==
    (UpperCurrencyCodes \cup MixedCurrencyCodes) \X (-MaxMinorArg .. MaxMinorArg)

\* The calls of digitGroupsOfAmountForCurrency: every currency code with
\* zero, the small amounts, the large ones, two negative ones, and the
\* values that are not integers.
DigitGroupsCalls ==
    (UpperCurrencyCodes \cup MixedCurrencyCodes)
        \X ({ JSNumber(n) : n \in (0 .. MaxDense) \cup BigAmounts \cup { -1, -100 } }
               \cup OtherAmounts)

\* The calls of separatorsForLocale: the locale codes given to format and
\* further spellings of the codes of its table.
SeparatorsCalls ==
    LocaleCodes \cup { << "A", "U" >>, << "B", "R" >>, << "B", "r" >>,
                       << "J", "P" >>, << "N", "Z" >>, << "d", "e" >>,
                       << "u" >> }

Init ==
    /\ pc = "called"
    /\ result = Throw(<< >>, << >>)
    /\ \/ /\ op = "formatMonetaryAmountForLocale"
          /\ \E call \in FormatCalls :
                /\ localeCode = call[1]
                /\ currencyCode = call[2]
                /\ amount = call[3]
       \/ /\ op = "groupDigits"
          /\ localeCode = JSUndefined
          /\ currencyCode = JSUndefined
          /\ amount \in { JSNumber(n) : n \in GroupDigitsArguments }
       \/ /\ op = "digitGroupsOfAmountForCurrency"
          /\ localeCode = JSUndefined
          /\ \E call \in DigitGroupsCalls :
                /\ currencyCode = JSString(call[1])
                /\ amount = call[2]
       \/ /\ op = "looser formatMonetaryAmountForLocale"
          /\ \E call \in FormatCalls :
                /\ localeCode = call[1]
                /\ currencyCode = call[2]
                /\ amount = call[3]
       \/ /\ op = "separatorsForLocale"
          /\ localeCode \in { JSString(l) : l \in SeparatorsCalls }
          /\ currencyCode = JSUndefined
          /\ amount = JSUndefined
       \/ /\ op = "minorUnitsAsDecimalForCurrency"
          /\ localeCode = JSUndefined
          /\ \E call \in MinorUnitCalls :
                /\ currencyCode = JSString(call[1])
                /\ amount = JSNumber(call[2])

Format ==
    /\ pc = "called"
    /\ op = "formatMonetaryAmountForLocale"
    /\ result' = formatMonetaryAmountForLocale(localeCode, currencyCode, amount)
    /\ pc' = "returned"
    /\ UNCHANGED << op, localeCode, currencyCode, amount >>

GroupDigits ==
    /\ pc = "called"
    /\ op = "groupDigits"
    /\ result' = Return(groupDigits(amount.int),
                        << Call("groupDigits", << >>, amount.int) >>)
    /\ pc' = "returned"
    /\ UNCHANGED << op, localeCode, currencyCode, amount >>

MinorUnitsAsDecimal ==
    /\ pc = "called"
    /\ op = "minorUnitsAsDecimalForCurrency"
    /\ result' = minorUnitsAsDecimalForCurrency(currencyCode.str, amount.int)
    /\ pc' = "returned"
    /\ UNCHANGED << op, localeCode, currencyCode, amount >>

DigitGroupsOfAmount ==
    /\ pc = "called"
    /\ op = "digitGroupsOfAmountForCurrency"
    /\ result' = digitGroupsOfAmountOfValue(currencyCode.str, amount)
    /\ pc' = "returned"
    /\ UNCHANGED << op, localeCode, currencyCode, amount >>

SeparatorsLookup ==
    /\ pc = "called"
    /\ op = "separatorsForLocale"
    /\ result' = separatorsForLocale(localeCode.str)
    /\ pc' = "returned"
    /\ UNCHANGED << op, localeCode, currencyCode, amount >>

FormatLooser ==
    /\ pc = "called"
    /\ op = "looser formatMonetaryAmountForLocale"
    /\ result' = Looser_formatMonetaryAmountForLocale(localeCode, currencyCode,
                                                      amount)
    /\ pc' = "returned"
    /\ UNCHANGED << op, localeCode, currencyCode, amount >>

Next ==
    \/ Format
    \/ FormatLooser
    \/ GroupDigits
    \/ MinorUnitsAsDecimal
    \/ DigitGroupsOfAmount
    \/ SeparatorsLookup

Spec == Init /\ [][Next]_vars

\* ------------------------------------------------- vocabulary of the claims

us == << "u", "s" >>
USD == << "U", "S", "D" >>
JPY == << "J", "P", "Y" >>
GBP == << "G", "B", "P" >>
EUR == << "E", "U", "R" >>
AUD == << "A", "U", "D" >>
CAD == << "C", "A", "D" >>
NZD == << "N", "Z", "D" >>
BRL == << "B", "R", "L" >>

FormatReturned == pc = "returned" /\ op = "formatMonetaryAmountForLocale"

GroupDigitsReturned == pc = "returned" /\ op = "groupDigits"

\* The argument is a string (a String object is one too).
IsAString(v) == v.typeof = "string" \/ (v.typeof = "object" /\ v.cls = "String")

\* The argument is a number that is a mathematical integer (-0 is).
IsAnIntegerNumber(v) ==
    v.typeof = "number" /\ v.cls \in { "finite", "negzero" } /\ v.frac = 0

\* The arguments pass the validation, and the amount is the integer amount.int.
ValidCall ==
    IsAString(localeCode) /\ IsAString(currencyCode) /\ IsAnIntegerNumber(amount)

Magnitude(n) == IF n < 0 THEN -n ELSE n

IsDigit(c) == \E i \in 1..10 : DigitChars[i] = c

DigitValue(c) == (CHOOSE i \in 1..10 : DigitChars[i] = c) - 1

\* The number a sequence of digits denotes.
RECURSIVE DecimalValue(_)
DecimalValue(digits) ==
    IF Len(digits) = 0 THEN 0
    ELSE 10 * DecimalValue(SubSeq(digits, 1, Len(digits) - 1))
            + DigitValue(digits[Len(digits)])

\* The decimal representation of a non-negative integer.
RECURSIVE Decimal(_)
Decimal(n) ==
    IF n < 10 THEN << DigitChars[n + 1] >>
    ELSE Decimal(n \div 10) \o << DigitChars[(n % 10) + 1] >>

\* Digits with a separator before every third digit from the right.
RECURSIVE Separated(_, _)
Separated(digits, separator) ==
    IF Len(digits) <= 3 THEN digits
    ELSE Separated(SubSeq(digits, 1, Len(digits) - 3), separator)
            \o separator \o SubSeq(digits, Len(digits) - 2, Len(digits))

TwoDigits(n) == << DigitChars[(n \div 10) + 1], DigitChars[(n % 10) + 1] >>

RECURSIVE Flatten(_)
Flatten(groups) ==
    IF Len(groups) = 0 THEN << >> ELSE groups[1] \o Flatten(Tail(groups))

Occurrences(s, c) == Cardinality({ i \in 1..Len(s) : s[i] = c })

SymbolOf(code) ==
    IF code \in { USD, AUD, CAD, NZD } THEN << "$" >>
    ELSE IF code = GBP THEN << "£" >>
    ELSE IF code = EUR THEN << "€" >>
    ELSE IF code = JPY THEN << "¥" >>
    ELSE << "R", "$" >>

SignOf(n) == IF n < 0 THEN << "-" >> ELSE << >>

\* sign, symbol, grouped major units, '.', two digits of minor units.
TwoDecimalRendering(code, n) ==
    SignOf(n) \o SymbolOf(code)
        \o Separated(Decimal(Magnitude(n) \div 100), << "," >>)
        \o << "." >> \o TwoDigits(Magnitude(n) % 100)

\* sign, symbol, grouped units.
NoDecimalRendering(code, n) ==
    SignOf(n) \o SymbolOf(code) \o Separated(Decimal(Magnitude(n)), << "," >>)

\* ------------------------------------------------------------------ claims

\* C1: formatMonetaryAmountForLocale fails whenever the locale is not a
\* string, or the currency is not a string, or the amount is not a number, or
\* the amount is a number that is not an integer, whatever the other two
\* arguments are.
C1_InvalidArgumentsFail ==
    (FormatReturned
        /\ (~IsAString(localeCode) \/ ~IsAString(currencyCode)
               \/ ~IsAnIntegerNumber(amount)))
    => ~result.ok

\* format( 'us', 'USD', 100.5 ) has failed on the integer check.
C1_Witness ==
    /\ FormatReturned
    /\ localeCode = JSString(us)
    /\ currencyCode = JSString(USD)
    /\ amount = JSFraction(100, 5)
    /\ ~result.ok
    /\ result.val = << "amount parameter must be an integer." >>

\* C2: for locale 'us', each of USD, GBP, EUR and every non-zero integer
\* amount a, the result is sign + symbol + G + '.' + FF, with G the groups of
\* floor(|a| / 100) joined with ',' and FF |a| mod 100 on two digits.
C2_UsTwoDecimalRendering ==
    (FormatReturned
        /\ localeCode = JSString(us)
        /\ currencyCode \in { JSString(USD), JSString(GBP), JSString(EUR) }
        /\ IsAnIntegerNumber(amount)
        /\ amount.int # 0)
    => (result.ok
        /\ result.val = TwoDecimalRendering(currencyCode.str, amount.int))

\* format( 'us', 'USD', 50000000 ) has returned '$500,000.00'.
C2_Witness ==
    /\ FormatReturned
    /\ localeCode = JSString(us)
    /\ currencyCode = JSString(USD)
    /\ amount = JSNumber(50000000)
    /\ result.ok
    /\ result.val = << "$", "5", "0", "0", ",", "0", "0", "0", ".", "0", "0" >>

\* Where the integer part of a returned string starts and ends: its first
\* digit, and the '.', else the ' ' of the code suffix, else the end.
IntegerPartStart(s) == CHOOSE i \in 1..Len(s) : IsDigit(s[i]) /\ \A j \in 1..(i - 1) : ~IsDigit(s[j])

IntegerPartEnd(s) ==
    IF \E i \in 1..Len(s) : s[i] = "."
    THEN CHOOSE i \in 1..Len(s) : s[i] = "."
    ELSE IF \E i \in 1..Len(s) : s[i] = " "
    THEN CHOOSE i \in 1..Len(s) : s[i] = " "
    ELSE Len(s) + 1

\* C3: groupDigits(n) is a non-empty sequence of digit strings, most
\* significant first; the first group has 1 to 3 digits and no leading zero
\* (it is "0" only for n = 0, and is then the only group); every later group
\* has exactly 3 digits; the groups concatenated are the decimal
\* representation of n.  Hence a returned string has a group separator
\* exactly every three digits leftward from the end of its integer part.
C3_DigitGrouping ==
    /\ GroupDigitsReturned =>
          LET groups == result.val
              n == amount.int
          IN  /\ Len(groups) >= 1
              /\ \A i \in 1..Len(groups) :
                    /\ \A j \in 1..Len(groups[i]) : IsDigit(groups[i][j])
                    /\ IF i = 1 THEN Len(groups[i]) \in 1..3
                                ELSE Len(groups[i]) = 3
              /\ groups[1][1] = "0" => (n = 0 /\ groups = << << "0" >> >>)
              /\ n = 0 => groups = << << "0" >> >>
              /\ DecimalValue(Flatten(groups)) = n
              /\ Flatten(groups) = Decimal(n)
    /\ (FormatReturned /\ result.ok) =>
          LET s == result.val
              first == IntegerPartStart(s)
              end == IntegerPartEnd(s)
          IN  /\ first < end
              /\ s[first] # "0" \/ end = first + 1
              /\ \A i \in first..(end - 1) :
                    IF (end - i) % 4 = 0 THEN s[i] = "," ELSE IsDigit(s[i])

\* groupDigits( 5000000 ) has returned [ '5', '000', '000' ].
C3_Witness ==
    /\ GroupDigitsReturned
    /\ amount = JSNumber(5000000)
    /\ result.val = << << "5" >>, << "0", "0", "0" >>, << "0", "0", "0" >> >>

\* The code suffix of the currencies rendered with their code.
CodeSuffix(code) ==
    IF code \in { USD, JPY, GBP, EUR } THEN << >> ELSE << " " >> \o code

\* The symbol+amount rendering of an integer amount: zero as symbol + '0'.
SymbolAmountRendering(code, n) ==
    IF n = 0 THEN SymbolOf(code) \o << "0" >>
    ELSE IF code = JPY THEN NoDecimalRendering(code, n)
    ELSE TwoDecimalRendering(code, n)

\* C4: for locale 'us' and every currency that has a symbol, amount 0 (and
\* -0) renders as symbol + '0', without sign, decimal separator or
\* fractional digits, followed only by ' ' + code for the currencies outside
\* USD, JPY, GBP, EUR.
C4_ZeroRendering ==
    (FormatReturned
        /\ localeCode = JSString(us)
        /\ currencyCode \in { JSString(c) :
               c \in { USD, JPY, GBP, EUR, AUD, CAD, NZD, BRL } }
        /\ amount \in { JSNumber(0), JSNegativeZero })
    => (result.ok
        /\ result.val = SymbolOf(currencyCode.str) \o << "0" >>
                            \o CodeSuffix(currencyCode.str))

\* format( 'us', 'AUD', -0 ) has returned '$0 AUD'.
C4_Witness ==
    /\ FormatReturned
    /\ localeCode = JSString(us)
    /\ currencyCode = JSString(AUD)
    /\ amount = JSNegativeZero
    /\ result.ok
    /\ result.val = << "$", "0", " ", "A", "U", "D" >>

\* Letter case, as the claims speak of it: the pairs of a lower-case and an
\* upper-case letter of ASCII and Latin-1 and of the further letters of the
\* calls, and the characters with an upper or a lower case that is not their
\* counterpart in a pair.
CasePairs ==
    { << "a", "A" >>, << "b", "B" >>, << "c", "C" >>, << "d", "D" >>,
      << "e", "E" >>, << "f", "F" >>, << "g", "G" >>, << "h", "H" >>,
      << "i", "I" >>, << "j", "J" >>, << "k", "K" >>, << "l", "L" >>,
      << "m", "M" >>, << "n", "N" >>, << "o", "O" >>, << "p", "P" >>,
      << "q", "Q" >>, << "r", "R" >>, << "s", "S" >>, << "t", "T" >>,
      << "u", "U" >>, << "v", "V" >>, << "w", "W" >>, << "x", "X" >>,
      << "y", "Y" >>, << "z", "Z" >>, << "à", "À" >>, << "á", "Á" >>,
      << "â", "Â" >>, << "ã", "Ã" >>, << "ä", "Ä" >>, << "å", "Å" >>,
      << "æ", "Æ" >>, << "ç", "Ç" >>, << "è", "È" >>, << "é", "É" >>,
      << "ê", "Ê" >>, << "ë", "Ë" >>, << "ì", "Ì" >>, << "í", "Í" >>,
      << "î", "Î" >>, << "ï", "Ï" >>, << "ð", "Ð" >>, << "ñ", "Ñ" >>,
      << "ò", "Ò" >>, << "ó", "Ó" >>, << "ô", "Ô" >>, << "õ", "Õ" >>,
      << "ö", "Ö" >>, << "ø", "Ø" >>, << "ù", "Ù" >>, << "ú", "Ú" >>,
      << "û", "Û" >>, << "ü", "Ü" >>, << "ý", "Ý" >>, << "þ", "Þ" >>,
      << "ÿ", "U+0178" >>, << "μ", "Μ" >>, << "α", "Α" >>, << "σ", "Σ" >>,
      << "U+0101", "U+0100" >>, << "U+044F", "U+042F" >> }

UppercaseOnly ==
    { << "ß", << "S", "S" >> >>, << "µ", << "Μ" >> >>,
      << "U+0131", << "I" >> >>, << "U+017F", << "S" >> >>,
      << "U+FB00", << "F", "F" >> >>, << "U+FB01", << "F", "I" >> >>,
      << "U+FB02", << "F", "L" >> >>, << "U+FB03", << "F", "F", "I" >> >>,
      << "U+FB04", << "F", "F", "L" >> >>, << "U+FB05", << "S", "T" >> >>,
      << "U+FB06", << "S", "T" >> >>, << "ς", << "Σ" >> >>,
      << "U+0149", << "ʼ", "N" >> >>, << "ǰ", << "J", "U+030C" >> >> }

LowercaseOnly ==
    { << "U+212A", << "k" >> >>, << "U+0130", << "i", "U+0307" >> >>,
      << "U+212B", << "å" >> >>, << "ẞ", << "ß" >> >> }

UppercaseOfChar(c) ==
    IF \E p \in CasePairs : p[1] = c
    THEN << (CHOOSE p \in CasePairs : p[1] = c)[2] >>
    ELSE IF \E p \in UppercaseOnly : p[1] = c
    THEN (CHOOSE p \in UppercaseOnly : p[1] = c)[2]
    ELSE << c >>

LowercaseOfChar(c) ==
    IF \E p \in CasePairs : p[2] = c
    THEN << (CHOOSE p \in CasePairs : p[2] = c)[1] >>
    ELSE IF \E p \in LowercaseOnly : p[1] = c
    THEN (CHOOSE p \in LowercaseOnly : p[1] = c)[2]
    ELSE << c >>

Uppercase(s) == Flatten([ i \in 1..Len(s) |-> UppercaseOfChar(s[i]) ])

\* The characters that do not count between a capital sigma and a letter.
Ignored == { "'", ".", ":", "^", "U+00AD", "U+0307", "U+030C", "ʼ" }

Letters ==
    ({ p[1] : p \in CasePairs } \cup { p[2] : p \in CasePairs }
        \cup { p[1] : p \in UppercaseOnly } \cup { p[1] : p \in LowercaseOnly })
            \ Ignored

\* The capital sigma at position i of s ends a word: a letter is before it
\* and no letter is after it, with nothing but ignored characters between.
EndsWord(s, i) ==
    /\ \E j \in 1..(i - 1) :
           s[j] \in Letters /\ \A k \in (j + 1)..(i - 1) : s[k] \in Ignored
    /\ ~\E j \in (i + 1)..Len(s) :
           s[j] \in Letters /\ \A k \in (i + 1)..(j - 1) : s[k] \in Ignored

Lowercase(s) ==
    Flatten([ i \in 1..Len(s) |->
                IF s[i] = "Σ" /\ EndsWord(s, i) THEN << "ς" >>
                ELSE LowercaseOfChar(s[i]) ])

\* C5: when format returns s for a > 0, it returns '-' + s for -a; the '-'
\* occurs exactly once, first, immediately before the currency symbol; no
\* string returned for a >= 0 contains '-'.
C5_SignHandling ==
    (FormatReturned /\ ValidCall) =>
        /\ amount.int < 0 =>
              LET positive == formatMonetaryAmountForLocale(
                                  localeCode, currencyCode, JSNumber(-amount.int))
                  symbol == SymbolOf(Uppercase(currencyCode.str))
              IN  positive.ok =>
                      /\ result.ok
                      /\ result.val = << "-" >> \o positive.val
                      /\ Occurrences(result.val, "-") = 1
                      /\ result.val[1] = "-"
                      /\ SubSeq(result.val, 2, 1 + Len(symbol)) = symbol
        /\ (amount.int >= 0 /\ result.ok) => Occurrences(result.val, "-") = 0

\* format( 'us', 'USD', -500 ) has returned '-$5.00'.
C5_Witness ==
    /\ FormatReturned
    /\ localeCode = JSString(us)
    /\ currencyCode = JSString(USD)
    /\ amount = JSNumber(-500)
    /\ result.ok
    /\ result.val = << "-", "$", "5", ".", "0", "0" >>

\* C6 as stated: for locale 'us', USD, JPY, GBP and EUR give the
\* symbol+amount rendering without code suffix, and each of AUD, CAD, NZD,
\* BRL gives, for every integer amount, the symbol+amount rendering followed
\* by one space and the upper-case code.
C6_AsStated ==
    (FormatReturned
        /\ localeCode = JSString(us)
        /\ currencyCode \in { JSString(c) :
               c \in { USD, JPY, GBP, EUR, AUD, CAD, NZD, BRL } }
        /\ IsAnIntegerNumber(amount))
    => (result.ok
        /\ result.val = SymbolAmountRendering(currencyCode.str, amount.int)
                            \o CodeSuffix(currencyCode.str))

\* C6, amended: for locale 'us', USD, JPY, GBP and EUR give the
\* symbol+amount rendering without code suffix; CAD and NZD for every
\* integer amount, and AUD and BRL for amount 0, give the symbol+amount
\* rendering followed by one space and the upper-case code; AUD and BRL with
\* a non-zero amount fail.
C6_DispatchRule ==
    (FormatReturned
        /\ localeCode = JSString(us)
        /\ currencyCode \in { JSString(c) :
               c \in { USD, JPY, GBP, EUR, AUD, CAD, NZD, BRL } }
        /\ IsAnIntegerNumber(amount))
    => IF currencyCode.str \in { AUD, BRL } /\ amount.int # 0
       THEN ~result.ok
       ELSE /\ result.ok
            /\ result.val = SymbolAmountRendering(currencyCode.str, amount.int)
                                \o CodeSuffix(currencyCode.str)

\* format( 'us', 'NZD', 10000 ) has returned '$100.00 NZD'.
C6_Witness ==
    /\ FormatReturned
    /\ localeCode = JSString(us)
    /\ currencyCode = JSString(NZD)
    /\ amount = JSNumber(10000)
    /\ result.ok
    /\ result.val = << "$", "1", "0", "0", ".", "0", "0", " ", "N", "Z", "D" >>

\* C7: for locale 'us', JPY and every integer amount a, format succeeds with
\* sign + yen sign + the groups of the whole |a| joined with ',', without a
\* decimal separator, and never calls the minor-unit renderer.
C7_YenHasNoFraction ==
    (FormatReturned
        /\ localeCode = JSString(us)
        /\ currencyCode = JSString(JPY)
        /\ IsAnIntegerNumber(amount))
    => (result.ok
        /\ result.val = NoDecimalRendering(JPY, amount.int)
        /\ Occurrences(result.val, ".") = 0
        /\ \A i \in 1..Len(result.trace) :
              result.trace[i].fn # "minorUnitsAsDecimalForCurrency")

\* format( 'us', 'JPY', 123456 ) has returned the yen sign and '123,456',
\* through the decomposer.
C7_Witness ==
    /\ FormatReturned
    /\ localeCode = JSString(us)
    /\ currencyCode = JSString(JPY)
    /\ amount = JSNumber(123456)
    /\ result.ok
    /\ result.val = << "¥", "1", "2", "3", ",", "4", "5", "6" >>
    /\ \E i \in 1..Len(result.trace) :
          result.trace[i].fn = "digitGroupsOfAmountForCurrency"

\* The currencies with a symbol, a base of 100 and a two-digit minor-unit
\* rendering.
TwoDigitCurrencies == { USD, GBP, EUR, NZD, CAD }

\* C8: for every supported currency with a two-digit minor unit and every
\* integer a with 0 < a < 100, the string returned for locale 'us' has
\* exactly one '.', after the integer part '0' and before exactly two
\* digits, which are a zero-padded; for a = 0 it has no '.'.
C8_AmountsBelowOneMajorUnit ==
    (FormatReturned
        /\ localeCode = JSString(us)
        /\ currencyCode \in { JSString(c) : c \in TwoDigitCurrencies }
        /\ IsAnIntegerNumber(amount)
        /\ 0 <= amount.int /\ amount.int < 100)
    => /\ result.ok
       /\ amount.int = 0 => Occurrences(result.val, ".") = 0
       /\ amount.int > 0 =>
             LET s == result.val
                 symbol == SymbolOf(currencyCode.str)
                 point == Len(symbol) + 2
             IN  /\ Occurrences(s, ".") = 1
                 /\ Len(s) >= point + 2
                 /\ SubSeq(s, 1, point) = symbol \o << "0", "." >>
                 /\ SubSeq(s, point + 1, point + 2) = TwoDigits(amount.int)
                 /\ Len(s) > point + 2 => ~IsDigit(s[point + 3])

\* format( 'us', 'USD', 5 ) has returned '$0.05'.
C8_Witness ==
    /\ FormatReturned
    /\ localeCode = JSString(us)
    /\ currencyCode = JSString(USD)
    /\ amount = JSNumber(5)
    /\ result.ok
    /\ result.val = << "$", "0", ".", "0", "5" >>

\* C9: for string arguments L and C, format( L, C, a ) has the outcome of
\* format( lowercase( L ), uppercase( C ), a ): the same string or the same
\* failure; the code suffix of a returned string is the upper-case code.
C9_Normalization ==
    (FormatReturned /\ IsAString(localeCode) /\ IsAString(currencyCode)) =>
        LET normalized == formatMonetaryAmountForLocale(
                              JSString(Lowercase(localeCode.str)),
                              JSString(Uppercase(currencyCode.str)),
                              amount)
            code == Uppercase(currencyCode.str)
            s == result.val
        IN  /\ result.ok = normalized.ok
            /\ result.val = normalized.val
            /\ (result.ok /\ code \notin { USD, JPY, GBP, EUR }) =>
                  /\ Len(s) > Len(code) + 1
                  /\ SubSeq(s, Len(s) - Len(code), Len(s)) = << " " >> \o code

\* format( 'US', 'nzd', 10000 ) has returned '$100.00 NZD'.
C9_Witness ==
    /\ FormatReturned
    /\ localeCode = JSString(<< "U", "S" >>)
    /\ currencyCode = JSString(<< "n", "z", "d" >>)
    /\ amount = JSNumber(10000)
    /\ result.ok
    /\ result.val = << "$", "1", "0", "0", ".", "0", "0", " ", "N", "Z", "D" >>

\* C10: for every string currency and integer amount, format fails with the
\* unhandled-locale error whenever the lower-cased locale is not 'us', the
\* locales gb, jp, nz, au and br of the separator table included.
C10_UnhandledLocale ==
    (FormatReturned /\ ValidCall /\ Lowercase(localeCode.str) # us)
    => (~result.ok /\ result.val = << "Unhandled locale" >>)

\* format( 'br', 'BRL', 100 ) has failed with 'Unhandled locale'.
C10_Witness ==
    /\ FormatReturned
    /\ localeCode = JSString(<< "b", "r" >>)
    /\ currencyCode = JSString(BRL)
    /\ amount = JSNumber(100)
    /\ ~result.ok
    /\ result.val = << "Unhandled locale" >>


\* The currency codes symbolForCurrency has a symbol for.
CodesWithSymbol == { USD, JPY, GBP, EUR, AUD, CAD, NZD, BRL }

\* The functions that look up a base or a minor-unit rendering, or that
\* are only called after the symbol is known and the amount is not zero.
AfterSymbolLookup ==
    { "renderAmountWithSeparatorsForCurrencyAndLocale",
      "digitGroupsOfAmountForCurrency", "minorUnitsPerMajorUnitForCurrency",
      "minorUnitsAsDecimalForCurrency", "separatorsForLocale", "groupDigits" }

\* C11: for locale 'us' and a currency code without symbol, format fails
\* for every integer amount, zero included, with the failure of the symbol
\* lookup: the symbol is looked up before the zero special case and before
\* any base or minor-unit lookup.
C11_UnsupportedCurrency ==
    (FormatReturned
        /\ ValidCall
        /\ Lowercase(localeCode.str) = us
        /\ Uppercase(currencyCode.str) \notin CodesWithSymbol)
    => (/\ ~result.ok
        /\ result.val = << "Symbol for currency code not defined: " >>
                            \o Uppercase(currencyCode.str)
        /\ Len(result.trace) > 0
        /\ result.trace[Len(result.trace)].fn = "symbolForCurrency"
        /\ \A i \in 1..Len(result.trace) :
              result.trace[i].fn \notin AfterSymbolLookup)

\* format( 'us', 'ZZZ', 0 ) has failed in symbolForCurrency.
C11_Witness ==
    /\ FormatReturned
    /\ localeCode = JSString(us)
    /\ currencyCode = JSString(<< "Z", "Z", "Z" >>)
    /\ amount = JSNumber(0)
    /\ ~result.ok
    /\ result.val = << "Symbol for currency code not defined: ", "Z", "Z", "Z" >>


\* C12: BRL has a symbol and a base but no minor-unit rendering: for locale
\* 'us' and every integer amount that is not a whole number of hundreds,
\* format fails with the missing-minor-unit-rule error and returns no string.
C12_BrlHasNoMinorUnitRule ==
    (FormatReturned
        /\ ValidCall
        /\ Lowercase(localeCode.str) = us
        /\ Uppercase(currencyCode.str) = BRL
        /\ Magnitude(amount.int) % 100 # 0)
    => (/\ ~result.ok
        /\ result.val = << "Minor unit format for currency code not defined: " >>
                            \o BRL
        /\ \E i \in 1..Len(result.trace) :
              /\ result.trace[i].fn = "symbolForCurrency"
              /\ \E j \in (i + 1)..Len(result.trace) :
                    /\ result.trace[j].fn = "minorUnitsPerMajorUnitForCurrency"
                    /\ j < Len(result.trace)
        /\ result.trace[Len(result.trace)]
              = Call("minorUnitsAsDecimalForCurrency", BRL,
                     Magnitude(amount.int) % 100))

\* format( 'us', 'BRL', 150 ) has failed in minorUnitsAsDecimalForCurrency.
C12_Witness ==
    /\ FormatReturned
    /\ localeCode = JSString(us)
    /\ currencyCode = JSString(BRL)
    /\ amount = JSNumber(150)
    /\ ~result.ok
    /\ result.val = << "Minor unit format for currency code not defined: ",
                       "B", "R", "L" >>


IsUpperLetter(c) == \E i \in 1..26 : UpperLetters[i] = c

\* What follows the integer part of a complete string: nothing or '.' and two
\* digits, and then nothing or ' ' and a code of three capital letters.
CompleteTail(t) ==
    LET f == IF Len(t) >= 1 /\ t[1] = "." THEN 3 ELSE 0
    IN  /\ Len(t) >= f
        /\ f = 3 => (IsDigit(t[2]) /\ IsDigit(t[3]))
        /\ \/ Len(t) = f
           \/ /\ Len(t) = f + 4
              /\ t[f + 1] = " "
              /\ \A k \in (f + 2)..(f + 4) : IsUpperLetter(t[k])

\* [ '-' ] symbol digit-groups [ '.' two-digits ] [ ' ' CODE ], made of the
\* symbol and the code given.
CompleteShape(s, code) ==
    /\ \E i \in 1..Len(s) : IsDigit(s[i])
    /\ LET first == IntegerPartStart(s)
           end == IntegerPartEnd(s)
           tail == SubSeq(s, end, Len(s))
       IN  /\ SubSeq(s, 1, first - 1) \in { SymbolOf(code), << "-" >> \o SymbolOf(code) }
           /\ first < end
           /\ s[first] # "0" \/ end = first + 1
           /\ \A i \in first..(end - 1) :
                 IF (end - i) % 4 = 0 THEN s[i] = "," ELSE IsDigit(s[i])
           /\ CompleteTail(tail)
           /\ Len(tail) >= 4 => SubSeq(tail, Len(tail) - 3, Len(tail)) = << " " >> \o code

\* s holds the text 'undefined' somewhere.
HoldsUndefined(s) ==
    \E i \in 1..Len(s) :
        /\ i + Len(UndefinedText) - 1 <= Len(s)
        /\ SubSeq(s, i, i + Len(UndefinedText) - 1) = UndefinedText

\* C13: every string format returns is complete, [ '-' ] symbol digit-groups
\* [ '.' two-digits ] [ ' ' CODE ], with no 'undefined' in it, and is made of
\* the symbol and code of the currency given, for a call whose locale is 'us'
\* up to case; every other call fails: there is no fallback currency or locale.
C13_AllOrNothing ==
    (FormatReturned /\ result.ok)
    => (/\ ValidCall
        /\ Lowercase(localeCode.str) = us
        /\ Uppercase(currencyCode.str) \in CodesWithSymbol
        /\ CompleteShape(result.val, Uppercase(currencyCode.str))
        /\ ~HoldsUndefined(result.val))

\* format( 'us', 'NZD', -123456 ) has returned '-$1,234.56 NZD', and
\* format( 'us', 'JPY', 123456 ) '¥123,456'.
C13_Witness ==
    /\ FormatReturned
    /\ localeCode = JSString(us)
    /\ result.ok
    /\ \/ /\ currencyCode = JSString(NZD)
          /\ amount = JSNumber(-123456)
          /\ result.val = << "-", "$", "1", ",", "2", "3", "4", ".", "5", "6",
                             " ", "N", "Z", "D" >>
       \/ /\ currencyCode = JSString(JPY)
          /\ amount = JSNumber(123456)
          /\ result.val = << "¥", "1", "2", "3", ",", "4", "5", "6" >>


MinorUnitsReturned == pc = "returned" /\ op = "minorUnitsAsDecimalForCurrency"

\* What the minor-unit renderer is to do for a currency of the two-digit
\* convention, for one without minor unit, and for any other code.
MinorUnitRule(twoDigitCodes) ==
    MinorUnitsReturned =>
        LET code == Uppercase(currencyCode.str)
            v == amount.int
        IN  IF code \in twoDigitCodes
            THEN IF 0 <= v /\ v < 100
                 THEN result.ok /\ result.val = TwoDigits(v)
                 ELSE ~result.ok
            ELSE IF code = JPY
            THEN /\ ~result.ok
                 /\ result.val = << "Currency does not have a minimal unit: " >> \o JPY
            ELSE /\ ~result.ok
                 /\ result.val = << "Minor unit format for currency code not defined: " >>
                                     \o code

\* C15 as stated, BRL among the currencies of the two-digit convention.
C15_AsStated == MinorUnitRule({ USD, GBP, EUR, NZD, CAD, AUD, BRL })

\* C15: for USD, GBP, EUR, NZD, CAD and AUD minorUnitsAsDecimalForCurrency
\* returns v on exactly two digits for every integer v in [0, 100) and fails
\* for every v < 0 and every v >= 100; for JPY it fails for every v; for
\* every other currency code, BRL among them, it fails for every v with the
\* error of the undefined minor-unit format.
C15_MinorUnitRenderer == MinorUnitRule({ USD, GBP, EUR, NZD, CAD, AUD })

\* minorUnitsAsDecimalForCurrency( 'BRL', 5 ) has failed, ( 'CAD', 5 ) has
\* returned '05' and ( 'CAD', 100 ) has failed.
C15_Witness ==
    /\ MinorUnitsReturned
    /\ \/ /\ currencyCode = JSString(BRL)
          /\ amount = JSNumber(5)
          /\ ~result.ok
          /\ result.val = << "Minor unit format for currency code not defined: ",
                             "B", "R", "L" >>
       \/ /\ currencyCode = JSString(CAD)
          /\ amount = JSNumber(5)
          /\ result.ok
          /\ result.val = << "0", "5" >>
       \/ /\ currencyCode = JSString(CAD)
          /\ amount = JSNumber(100)
          /\ ~result.ok


DigitGroupsReturned == pc = "returned" /\ op = "digitGroupsOfAmountForCurrency"

\* The currency codes minorUnitsPerMajorUnitForCurrency has a base for.
CodesWithBase == { JPY, BRL, CAD, EUR, GBP, NZD, USD }

\* C16: for every currency with a defined base,
\* digitGroupsOfAmountForCurrency(cur, 0) returns the integer part [ '0' ]
\* without failing; the fractional part is '00' when the base is not 1, and
\* for base 1 (JPY) none is produced and the minor-unit renderer is not called.
C16_AsStated ==
    (DigitGroupsReturned
        /\ IsAnIntegerNumber(amount)
        /\ amount.int = 0
        /\ Uppercase(currencyCode.str) \in CodesWithBase)
    => (/\ result.ok
        /\ result.val.integerPart = << << "0" >> >>
        /\ IF Uppercase(currencyCode.str) = JPY
           THEN /\ ~result.val.hasFractionalPart
                /\ \A i \in 1..Len(result.trace) :
                      result.trace[i].fn # "minorUnitsAsDecimalForCurrency"
           ELSE /\ result.val.hasFractionalPart
                /\ result.val.fractionalPart = << "0", "0" >>)

\* digitGroupsOfAmountForCurrency( 'JPY', 0 ) has failed in the minor-unit
\* renderer, which it calls before any look at the base.
C16_Witness ==
    /\ DigitGroupsReturned
    /\ currencyCode = JSString(JPY)
    /\ amount = JSNumber(0)
    /\ ~result.ok
    /\ result.val = << "Currency does not have a minimal unit: ", "J", "P", "Y" >>
    /\ result.trace = << Call("digitGroupsOfAmountForCurrency", JPY, 0),
                         Call("minorUnitsAsDecimalForCurrency", JPY, 0) >>


SeparatorsReturned == pc = "returned" /\ op = "separatorsForLocale"

gb == << "g", "b" >>
jp == << "j", "p" >>
nz == << "n", "z" >>
au == << "a", "u" >>
br == << "b", "r" >>

\* The lookup has returned the separators given.
ReturnedSeparators(decimal, group) ==
    /\ result.ok
    /\ result.val.defined
    /\ result.val.decimalSeparator = decimal
    /\ result.val.groupSeparator = group

\* C17: separatorsForLocale returns decimal '.' and group ',' for us, gb, jp
\* and nz, decimal '.' and group ' ' for au, decimal ',' and group '.' for
\* br, and fails for every locale code absent from this table rather than
\* returning a value.
C17_AsStated ==
    SeparatorsReturned =>
        LET locale == Lowercase(localeCode.str)
        IN  IF locale \in { us, gb, jp, nz }
            THEN ReturnedSeparators(<< "." >>, << "," >>)
            ELSE IF locale = au
            THEN ReturnedSeparators(<< "." >>, << " " >>)
            ELSE IF locale = br
            THEN ReturnedSeparators(<< "," >>, << "." >>)
            ELSE ~result.ok

\* separatorsForLocale( 'fr' ) has returned, and what it returned is
\* undefined.
C17_Witness ==
    /\ SeparatorsReturned
    /\ localeCode = JSString(<< "f", "r" >>)
    /\ result.ok
    /\ ~result.val.defined


LooserReturned == pc = "returned" /\ op = "looser formatMonetaryAmountForLocale"

\* What the stricter variant does with the arguments of the call.
StricterOutcome == formatMonetaryAmountForLocale(localeCode, currencyCode, amount)

\* C18: on every input on which the looser variant returns a string the
\* stricter variant returns the same string; the inputs on which one variant
\* returns a string and the other fails are exactly the valid calls for
\* locale 'us' with currency CAD and a non-zero amount, or with currency BRL
\* and amount zero, and on these it is the stricter variant that returns.
C18_VariantsRelated ==
    LooserReturned =>
        /\ result.ok => (StricterOutcome.ok /\ StricterOutcome.val = result.val)
        /\ (result.ok # StricterOutcome.ok)
              <=> (/\ ValidCall
                   /\ Lowercase(localeCode.str) = us
                   /\ \/ Uppercase(currencyCode.str) = CAD /\ amount.int # 0
                      \/ Uppercase(currencyCode.str) = BRL /\ amount.int = 0)
        /\ (result.ok # StricterOutcome.ok) => StricterOutcome.ok

\* The looser variant has failed on ( 'us', 'CAD', 500 ), where the stricter
\* one returns '$5.00 CAD', and has returned '$5.00 NZD' as the stricter one
\* does.
C18_Witness ==
    /\ LooserReturned
    /\ localeCode = JSString(us)
    /\ amount = JSNumber(500)
    /\ \/ /\ currencyCode = JSString(CAD)
          /\ ~result.ok
          /\ result.val = << "Unknown minor unit format" >>
          /\ StricterOutcome.ok
          /\ StricterOutcome.val = << "$", "5", ".", "0", "0", " ", "C", "A", "D" >>
       \/ /\ currencyCode = JSString(NZD)
          /\ result.ok
          /\ result.val = << "$", "5", ".", "0", "0", " ", "N", "Z", "D" >>
          /\ StricterOutcome = [ result EXCEPT !.trace = StricterOutcome.trace ]


\* The currencies with a symbol, and base 1 or a base and a minor-unit rule.
FullyCoveredCurrencies == { USD, JPY, GBP, EUR, NZD, CAD }

\* C19: for locale 'us' and a non-zero integer amount, format returns a
\* string exactly for USD, JPY, GBP, EUR, NZD and CAD; for AUD it fails with
\* the unknown-exponent error; for BRL it fails for every non-zero amount,
\* whole multiples of 100 included; for amount 0, AUD and BRL give '$0 AUD'
\* and 'R$0 BRL'.
C19_TableCoverage ==
    (FormatReturned /\ ValidCall /\ Lowercase(localeCode.str) = us)
    => LET code == Uppercase(currencyCode.str)
       IN  /\ amount.int # 0 =>
                 /\ result.ok <=> code \in FullyCoveredCurrencies
                 /\ code = AUD =>
                       result.val = << "Unknown currency exponent" >>
                 /\ code = BRL =>
                       result.val
                          = << "Minor unit format for currency code not defined: " >>
                               \o BRL
           /\ amount.int = 0 =>
                 /\ code = AUD =>
                       (result.ok /\ result.val = << "$", "0", " " >> \o AUD)
                 /\ code = BRL =>
                       (result.ok /\ result.val = << "R", "$", "0", " " >> \o BRL)

\* format( 'us', 'BRL', 10000 ) and format( 'us', 'AUD', 500 ) have failed,
\* and format( 'us', 'BRL', 0 ) has returned 'R$0 BRL'.
C19_Witness ==
    /\ FormatReturned
    /\ localeCode = JSString(us)
    /\ \/ /\ currencyCode = JSString(BRL)
          /\ amount = JSNumber(10000)
          /\ ~result.ok
       \/ /\ currencyCode = JSString(AUD)
          /\ amount = JSNumber(500)
          /\ ~result.ok
          /\ result.val = << "Unknown currency exponent" >>
       \/ /\ currencyCode = JSString(BRL)
          /\ amount = JSNumber(0)
          /\ result.ok
          /\ result.val = << "R", "$", "0", " ", "B", "R", "L" >>


\* The digits of s, everything else deleted.
DigitsOf(s) == SelectSeq(s, IsDigit)

\* Where the '.' of s is, 0 when it has none.
DotAt(s) ==
    IF \E i \in 1..Len(s) : s[i] = "."
    THEN CHOOSE i \in 1..Len(s) : s[i] = "."
    ELSE 0

\* The amount read back from a returned string: the digits as a whole for
\* JPY, else M * 100 + F with M the digits left of the '.' and F the two
\* digits right of it; -1 when there is no '.' followed by two digits.
ReadBack(s, code) ==
    IF code = JPY
    THEN DecimalValue(DigitsOf(s))
    ELSE IF DotAt(s) = 0 \/ DotAt(s) + 2 > Len(s) THEN -1
    ELSE IF ~(IsDigit(s[DotAt(s) + 1]) /\ IsDigit(s[DotAt(s) + 2])) THEN -1
    ELSE DecimalValue(DigitsOf(SubSeq(s, 1, DotAt(s) - 1))) * 100
            + DecimalValue(SubSeq(s, DotAt(s) + 1, DotAt(s) + 2))

\* C20: whenever format( 'us', cur, a ) returns a string for a # 0, the
\* amount is recoverable from it: the string starts with '-' exactly when
\* a < 0, and with sign, symbol, group separators and code suffix deleted,
\* M * 100 + F = |a| for the base-100 currencies and the digits as a whole
\* are |a| for JPY.  Hence distinct amounts of one currency give distinct
\* strings.
C20_ValuePreservation ==
    (FormatReturned
        /\ ValidCall
        /\ Lowercase(localeCode.str) = us
        /\ amount.int # 0
        /\ result.ok)
    => (/\ Len(result.val) >= 2
        /\ (result.val[1] = "-") <=> (amount.int < 0)
        /\ ReadBack(result.val, Uppercase(currencyCode.str))
              = Magnitude(amount.int))

\* format( 'us', 'NZD', -123456 ) has returned '-$1,234.56 NZD', which
\* reads back as 1234 * 100 + 56.
C20_Witness ==
    /\ FormatReturned
    /\ localeCode = JSString(us)
    /\ currencyCode = JSString(NZD)
    /\ amount = JSNumber(-123456)
    /\ result.ok
    /\ DigitsOf(SubSeq(result.val, 1, DotAt(result.val) - 1))
          = << "1", "2", "3", "4" >>
    /\ ReadBack(result.val, NZD) = 123456


\* The argument is a number or a Number object.
IsANumber(v) == v.typeof = "number" \/ (v.typeof = "object" /\ v.cls = "Number")

\* The currency codes the minor-unit renderer has a rule for.
CodesWithMinorUnitRule == { AUD, CAD, EUR, GBP, NZD, USD }

NoFailure == << "no failure" >>

\* The first failure condition of the call, in the order locale not a string,
\* currency not a string, amount not a number, amount not an integer,
\* unhandled locale, missing symbol, missing base, missing minor-unit rule.
\* The base and the minor-unit rule are needed for a non-zero amount only,
\* and the minor-unit rule for a base other than 1 only.
FirstFailure ==
    IF ~IsAString(localeCode)
    THEN << "locale parameter must be a string." >>
    ELSE IF ~IsAString(currencyCode)
    THEN << "currency parameter must be a string." >>
    ELSE IF ~IsANumber(amount)
    THEN << "amount parameter must be a number." >>
    ELSE IF ~IsAnIntegerNumber(amount)
    THEN << "amount parameter must be an integer." >>
    ELSE IF Lowercase(localeCode.str) # us
    THEN << "Unhandled locale" >>
    ELSE IF Uppercase(currencyCode.str) \notin CodesWithSymbol
    THEN << "Symbol for currency code not defined: " >> \o Uppercase(currencyCode.str)
    ELSE IF amount.int # 0 /\ Uppercase(currencyCode.str) \notin CodesWithBase
    THEN << "Unknown currency exponent" >>
    ELSE IF /\ amount.int # 0
            /\ Uppercase(currencyCode.str) # JPY
            /\ Uppercase(currencyCode.str) \notin CodesWithMinorUnitRule
    THEN << "Minor unit format for currency code not defined: " >>
             \o Uppercase(currencyCode.str)
    ELSE NoFailure

\* How many of the eight failure conditions hold for the call.
FailureConditions ==
    LET strings == IsAString(localeCode) /\ IsAString(currencyCode)
        code == IF IsAString(currencyCode) THEN Uppercase(currencyCode.str) ELSE << >>
    IN  Cardinality(
          { c \in 1..8 :
              \/ c = 1 /\ ~IsAString(localeCode)
              \/ c = 2 /\ ~IsAString(currencyCode)
              \/ c = 3 /\ ~IsANumber(amount)
              \/ c = 4 /\ ~IsAnIntegerNumber(amount)
              \/ c = 5 /\ IsAString(localeCode) /\ Lowercase(localeCode.str) # us
              \/ c = 6 /\ IsAString(currencyCode) /\ code \notin CodesWithSymbol
              \/ c = 7 /\ IsAString(currencyCode) /\ code \notin CodesWithBase
              \/ c = 8 /\ IsAString(currencyCode)
                       /\ code \notin CodesWithMinorUnitRule })

\* C21: the failure format raises is the first that holds in the order
\* locale not a string, currency not a string, amount not a number, amount
\* not an integer, unhandled locale, missing symbol, missing base, missing
\* minor-unit rule, and format returns a string when none holds; the
\* decomposer, given a non-zero amount and a currency with neither base nor
\* minor-unit rule, raises the missing base.
C21_FailurePrecedence ==
    /\ FormatReturned =>
          IF FirstFailure = NoFailure
          THEN result.ok
          ELSE ~result.ok /\ result.val = FirstFailure
    /\ (DigitGroupsReturned
           /\ IsAnIntegerNumber(amount)
           /\ amount.int > 0
           /\ Uppercase(currencyCode.str) \notin CodesWithBase)
       => (~result.ok /\ result.val = << "Unknown currency exponent" >>)

\* format( 'fr', 'ZZZ', 100.5 ) has failed on the integer check, with the
\* unhandled locale, the missing symbol, base and minor-unit rule holding too.
C21_Witness ==
    /\ FormatReturned
    /\ localeCode = JSString(<< "f", "r" >>)
    /\ currencyCode = JSString(<< "Z", "Z", "Z" >>)
    /\ amount = JSFraction(100, 5)
    /\ FailureConditions = 5
    /\ ~result.ok
    /\ result.val = << "amount parameter must be an integer." >>


DecomposerGuardFailure ==
    << "absoluteAmount parameter must be a nonnegative integer." >>

\* C22: digitGroupsOfAmountForCurrency rejects every negative and every
\* non-integer amount, and the two-digit minor-unit renderer every value
\* outside [0, 100); but in every call of format that passes the validation
\* the decomposer receives a non-negative integer and the minor-unit renderer
\* a value in [0, 100), and format never fails with the failure of either
\* guard.
C22_GuardsUnreachable ==
    /\ (DigitGroupsReturned /\ (~IsAnIntegerNumber(amount) \/ amount.int < 0))
       => (/\ ~result.ok
           /\ result.val = DecomposerGuardFailure
           /\ Len(result.trace) = 1)
    /\ (MinorUnitsReturned
           /\ Uppercase(currencyCode.str) \in CodesWithMinorUnitRule
           /\ (amount.int < 0 \/ amount.int >= 100))
       => (~result.ok /\ result.val = << >>)
    /\ (FormatReturned /\ ValidCall)
       => (/\ \A i \in 1..Len(result.trace) :
                 /\ result.trace[i].fn = "digitGroupsOfAmountForCurrency"
                       => result.trace[i].n = Magnitude(amount.int)
                 /\ result.trace[i].fn = "minorUnitsAsDecimalForCurrency"
                       => result.trace[i].n = Magnitude(amount.int) % 100
                 /\ result.trace[i].fn \in { "digitGroupsOfAmountForCurrency",
                                             "minorUnitsAsDecimalForCurrency" }
                       => result.trace[i].n >= 0
           /\ ~result.ok => (/\ result.val # DecomposerGuardFailure
                             /\ result.val # << >>))

\* format( 'us', 'USD', -199 ) has returned '-$1.99', having given 199 to
\* the decomposer and 99 to the minor-unit renderer.
C22_Witness ==
    /\ FormatReturned
    /\ localeCode = JSString(us)
    /\ currencyCode = JSString(USD)
    /\ amount = JSNumber(-199)
    /\ result.ok
    /\ result.val = << "-", "$", "1", ".", "9", "9" >>
    /\ \E i \in 1..Len(result.trace) :
          result.trace[i] = Call("digitGroupsOfAmountForCurrency", USD, 199)
    /\ \E i \in 1..Len(result.trace) :
          result.trace[i] = Call("minorUnitsAsDecimalForCurrency", USD, 99)

====
